---------------------------- MODULE Spec2Model ----------------------------
(***************************************************************************)
(* ATN (Agent Trust Node): the trust-node's in-memory Store, its signature *)
(* middleware and registration / offer handlers, the core library's escrow *)
(* state machine, canonicalizer, signature and hash functions, and the job *)
(* lifecycle handlers that drive them.                                     *)
(* Identifiers the node draws from Date.now() and Math.random() are fresh  *)
(* numbers; the Express pipeline serves one request to its end before the  *)
(* next (the handlers are synchronous).                                    *)
(***************************************************************************)
EXTENDS Integers, Sequences, FiniteSets, TLC

VARIABLES
    db,          \* db.ts store: "Store" when it holds a Store, "null" when not
    agents,      \* Store.agents   : did -> Agent
    offers,      \* Store.offers   : id  -> Offer
    jobs,        \* Store.jobs     : id  -> Job
    eventLog,    \* Store.eventLog : sequence of EventLogEntry
    eventLogId,  \* Store.eventLogId
    last,        \* what the node handled last: a request with its outcome,
                 \* the signal, or the close callback
    tail,        \* StoreSpec: what each caller read with getLastEventHashForJob
    query,       \* MachineSpec: the state-machine call made last
    server,      \* the http server of the node: listening, closing or exited
    heap         \* statemachine.ts: the arrays of the module, the rows of
                 \* VALID_TRANSITIONS first

\* the module's store and the fields of the Store it holds
storeVars == <<db, agents, offers, jobs, eventLog, eventLogId>>

\* the http server and the state machine's arrays
moduleVars == <<server, heap>>

vars == <<db, agents, offers, jobs, eventLog, eventLogId, last, tail, query,
          server, heap>>

(***************************************************************************)
(* Bounds of the model.                                                    *)
(***************************************************************************)
MaxJobs == 1
MaxOffers == 1
MaxLog == 5
MaxReq == 2
MaxStoreJobs == 2
MaxStoreLog == 3
MaxTime == 0
MaxPre == 2
MaxSuf == 2
MaxChain == 3
MaxDepth == 2
MaxWidth == 2
MaxNested == 1
MaxPath == 6
MaxInFlight == 1
MaxArrays == 1
MaxItems == 2

\* a signature string that is no base64 of a 64-byte Ed25519 signature
MalformedSig == [malformed |-> TRUE]

\* the empty string, as the signature and as the signerId of a request
EmptySignature == [empty |-> TRUE]
EmptySignerId == <<>>

(***************************************************************************)
(* Public keys.  A key is a base64 string; the model keeps its first 16    *)
(* characters (pre) apart from the rest (suf) and from the padding the     *)
(* text ends with (pad), because the identifier is made of the first 16    *)
(* alone and the bytes of the key are the same without the padding.        *)
(***************************************************************************)
Keys == { [pre |-> 1, suf |-> 1, pad |-> "="],
          [pre |-> 2, suf |-> 1, pad |-> "="],
          [pre |-> 2, suf |-> 2, pad |-> "="] }

\* publicKey.substring(0, 16)
substring16(publicKey) == publicKey.pre

\* client.ts deriveDid
deriveDid(publicKey) == <<"did:atn:", substring16(publicKey)>>

DIDs == { deriveDid(k) : k \in Keys }

(***************************************************************************)
(* JSON values.  A value is a record of its type (typeof, with array, null *)
(* and NaN told apart) and its content.  A string holds the sequence of    *)
(* its pieces, none for the empty string; a text, a public key, an         *)
(* identifier or a hash is one piece.  An object is the sequence of its    *)
(* <<key, value>> pairs in insertion order.  A JSON text is the sequence   *)
(* of its tokens: the text of a number, a string in its quotes, one of the *)
(* literal names null, true and false, or a punctuation mark.              *)
(***************************************************************************)
Num(n) == [t |-> "number", v |-> n]
Str(s) == [t |-> "string", v |-> <<s>>]
EmptyString == [t |-> "string", v |-> <<>>]
Null == [t |-> "null", v |-> "null"]
Bool(b) == [t |-> "boolean", v |-> b]
NaN == [t |-> "NaN", v |-> "NaN"]
Undefined == [t |-> "undefined", v |-> "undefined"]
Arr(items) == [t |-> "array", v |-> items]
Obj(pairs) == [t |-> "object", v |-> pairs]
NumberText(n) == [t |-> "number text", v |-> n]
QuotedText(pieces) == [t |-> "quoted text", v |-> pieces]
Literal(name) == [t |-> "literal", v |-> name]
Punct(c) == [t |-> "punct", v |-> c]
SyntaxError == [t |-> "SyntaxError", v |-> "SyntaxError"]

isContainer(node) == node.t \in {"array", "object"}

\* !!value
truthy(node) ==
    CASE node.t \in {"undefined", "null", "NaN"} -> FALSE
      [] node.t = "boolean" -> node.v
      [] node.t = "number" -> node.v # 0
      [] node.t = "string" -> Len(node.v) # 0
      [] OTHER -> TRUE

\* the string or number a value is (the content of a string that is one
\* piece, the number of a number)
valueOf(node) == IF node.t = "string" THEN node.v[1] ELSE node.v

\* obj[key]: undefined for a key the object does not have, and for every
\* key of a value that is no object
Field(obj, key) ==
    IF obj.t # "object" THEN Undefined
    ELSE IF \A i \in 1..Len(obj.v) : obj.v[i][1] # key THEN Undefined
    ELSE obj.v[CHOOSE i \in 1..Len(obj.v) : obj.v[i][1] = key][2]

\* !!obj[key]: what the handlers test with !payload.key
Has(obj, key) == truthy(Field(obj, key))

(***************************************************************************)
(* Canonical JSON: json-stable-stringify with cmp                          *)
(* a.key.localeCompare(b.key) and no whitespace.                           *)
(***************************************************************************)
KeyOrder == << "action", "actor", "amount", "attestationType", "capability",
               "clientId", "data", "description", "U+00E9", "escrowAmount",
               "inputSchema", "jobId", "name",
               "offerId", "outputSchema", "payload", "previousHash",
               "pricePerJob", "proofHash", "providerId", "publicKey",
               "requiredAttestations", "state", "tampered",
               "timeoutSeconds", "timestamp", "type" >>

\* Keys are named by their text, but for two that are named by their code
\* points: "U+00E9" (e with acute, one code point) and "U+0065 U+0301" (e
\* followed by a combining acute).  The two are different strings that are
\* canonically equivalent, and a collator gives them the same collation key.
collationKey(k) == IF k = "U+0065 U+0301" THEN "U+00E9" ELSE k

\* the place of each key in the collation order
KeyRanks ==
    [k \in { KeyOrder[i] : i \in 1..Len(KeyOrder) } |->
        CHOOSE i \in 1..Len(KeyOrder) : KeyOrder[i] = k]

KeyRank(k) == KeyRanks[collationKey(k)]

\* a.key.localeCompare(b.key)
localeCompare(a, b) ==
    IF KeyRank(a) < KeyRank(b) THEN -1
    ELSE IF KeyRank(a) > KeyRank(b) THEN 1 ELSE 0

RECURSIVE insertSorted(_, _)
insertSorted(pair, sorted) ==
    IF sorted = <<>> THEN <<pair>>
    ELSE IF localeCompare(pair[1], Head(sorted)[1]) <= 0
         THEN <<pair>> \o sorted
         ELSE <<Head(sorted)>> \o insertSorted(pair, Tail(sorted))

\* objectKeys(node).sort(cmp): a stable sort of the pairs by their keys
RECURSIVE sortKeys(_)
sortKeys(obj) ==
    IF obj = <<>> THEN <<>>
    ELSE insertSorted(Head(obj), sortKeys(Tail(obj)))

\* the text of a value that is no array and no object: a number in its
\* digits, a string in quotes, null, true or false; NaN is written null
leafText(node) ==
    CASE node.t = "number" -> NumberText(node.v)
      [] node.t = "string" -> QuotedText(node.v)
      [] node.t = "boolean" -> Literal(IF node.v THEN "true" ELSE "false")
      [] node.t \in {"null", "NaN"} -> Literal("null")

RECURSIVE JSONstringify(_), JSONstringifyItems(_), JSONstringifyMembers(_)

\* faulty variant: a number is written as a string
JSONstringifyQuoted(node) ==
    IF node.t = "undefined" THEN <<>>
    ELSE IF node.t = "number" THEN <<QuotedText(<<node.v>>)>>
    ELSE IF ~isContainer(node) THEN <<leafText(node)>>
    ELSE IF node.t = "array"
    THEN <<Punct("[")>> \o JSONstringifyItems(node.v) \o <<Punct("]")>>
    ELSE <<Punct("{")>> \o JSONstringifyMembers(node.v) \o <<Punct("}")>>

\* JSON.stringify: undefined has no text (the empty sequence); the members
\* of an object are written in insertion order
JSONstringify(node) ==
    IF node.t = "undefined" THEN <<>>
    ELSE IF ~isContainer(node) THEN <<leafText(node)>>
    ELSE IF node.t = "array"
    THEN <<Punct("[")>> \o JSONstringifyItems(node.v) \o <<Punct("]")>>
    ELSE <<Punct("{")>> \o JSONstringifyMembers(node.v) \o <<Punct("}")>>

\* an item that has no text is written null
JSONstringifyItems(items) ==
    IF Len(items) = 0 THEN <<>>
    ELSE LET value == JSONstringify(Head(items))
             item == IF value = <<>> THEN <<Literal("null")>> ELSE value
         IN  IF Len(items) = 1 THEN item
             ELSE item \o <<Punct(",")>> \o JSONstringifyItems(Tail(items))

\* a member whose value has no text is left out
JSONstringifyMembers(pairs) ==
    IF Len(pairs) = 0 THEN <<>>
    ELSE LET value == JSONstringify(Head(pairs)[2])
             rest == JSONstringifyMembers(Tail(pairs))
         IN  IF value = <<>> THEN rest
             ELSE <<QuotedText(<<Head(pairs)[1]>>), Punct(":")>> \o value
                    \o (IF rest = <<>> THEN <<>> ELSE <<Punct(",")>> \o rest)

\* json-stable-stringify with cmp a.key.localeCompare(b.key) and space '';
\* undefined (no text) is the empty sequence
RECURSIVE stringify(_), stringifyItems(_), stringifyMembers(_)
stringify(node) ==
    IF node.t = "undefined" THEN <<>>
    ELSE IF ~isContainer(node) THEN JSONstringify(node)
    ELSE IF node.t = "array"
    THEN <<Punct("[")>> \o stringifyItems(node.v) \o <<Punct("]")>>
    ELSE <<Punct("{")>> \o stringifyMembers(sortKeys(node.v))
           \o <<Punct("}")>>

\* item = stringify(node[i]) || JSON.stringify(null); out.join(',')
stringifyItems(items) ==
    IF Len(items) = 0 THEN <<>>
    ELSE LET value == stringify(Head(items))
             item == IF value = <<>> THEN JSONstringify(Null) ELSE value
         IN  IF Len(items) = 1 THEN item
             ELSE item \o <<Punct(",")>> \o stringifyItems(Tail(items))

\* value = stringify(node[key]); if (!value) continue; out.join(',')
stringifyMembers(pairs) ==
    IF Len(pairs) = 0 THEN <<>>
    ELSE LET value == stringify(Head(pairs)[2])
             rest == stringifyMembers(Tail(pairs))
         IN  IF value = <<>> THEN rest
             ELSE <<QuotedText(<<Head(pairs)[1]>>), Punct(":")>> \o value
                    \o (IF rest = <<>> THEN <<>> ELSE <<Punct(",")>> \o rest)

\* canonical.ts canonicalize: result || '' (no text and the empty text are
\* both the empty sequence)
canonicalize(obj) ==
    LET result == stringify(obj)
    IN  IF result = <<>> THEN <<>> ELSE result

\* Buffer.from(canonicalize(obj), 'utf-8')
canonicalBytes(obj) == canonicalize(obj)

(***************************************************************************)
(* Ed25519, symbolically.  The 64 bytes of a signature name the key pair   *)
(* that made it (by), the bytes it was made over (over) and its scalar (s: *)
(* "S" as signed, or "S+L", the same scalar plus the order of the group);  *)
(* a signature string is the base64 text of the bytes, with its "=="       *)
(* padding or without it (pad).  A public key string is the base64 text of *)
(* 32 bytes, with its "=" padding or without it.                           *)
(***************************************************************************)
\* Buffer.from(publicKey, 'base64')
keyBytes(publicKey) == [pre |-> publicKey.pre, suf |-> publicKey.suf]

secretKeyOf(publicKey) == <<"secret", keyBytes(publicKey)>>

\* Buffer.from(nacl.sign.detached(message, secret)).toString('base64')
sign(message, secretKey) ==
    [by |-> secretKey[2], over |-> message, s |-> "S", pad |-> "=="]

\* nacl.sign.detached.verify of the decoded signature and key; a signature
\* string that does not decode to 64 bytes makes it throw, and verify
\* returns false
verify(message, signature, publicKey) ==
    IF DOMAIN signature # {"by", "over", "s", "pad"}
    THEN FALSE
    ELSE LET sig == [by |-> signature.by, over |-> signature.over,
                     s |-> signature.s]
             pubkey == keyBytes(publicKey)
         IN  sig.by = pubkey /\ sig.over = message

(***************************************************************************)
(* SHA256, symbolically.  A digest is 64 hex digits: the first 16 and the   *)
(* rest.  The 64 digits differ for different inputs; the first 16 alone    *)
(* (64 bits) do not: the digests of the two public key strings of          *)
(* Prefix64Collision begin with the same 16 digits.                        *)
(***************************************************************************)
Prefix64Collision ==
    { [pre |-> 1, suf |-> 2, pad |-> "="],
      [pre |-> 2, suf |-> 2, pad |-> "="] }

sha256(data) ==
    [first16 |-> IF data \in Prefix64Collision
                 THEN [hex |-> <<"5875724d01f8d65f">>]
                 ELSE [hex |-> <<"digits 1 to 16", data>>],
     rest |-> <<"sha256", "digits 17 to 64", data>>]

hashCanonical(obj) == sha256(canonicalBytes(obj))

\* faulty variant: the payload is left out of what is hashed
chainHashOfPrevious(previousHash, currentPayload) ==
    hashCanonical(Obj(<< <<"previousHash", Str(previousHash)>> >>))

\* hashCanonical({ previousHash, payload: currentPayload })
chainHash(previousHash, currentPayload) ==
    hashCanonical(Obj(<< <<"previousHash", Str(previousHash)>>,
                         <<"payload", currentPayload>> >>))

verifyChain(previousHash, currentPayload, expectedHash) ==
    chainHash(previousHash, currentPayload) = expectedHash

\* sha256('GENESIS'): the string as its bytes
GenesisHash == sha256(<<"G", "E", "N", "E", "S", "I", "S">>)

(***************************************************************************)
(* Escrow state machine.  VALID_TRANSITIONS is an object whose values are  *)
(* arrays; an array is a place in the heap, and what a function returns is *)
(* a reference to one.                                                     *)
(***************************************************************************)
JobStates == {"CREATED", "FUNDED", "PROVED", "ATTESTED", "SETTLED"}

\* faulty variant: an attested job may be sent back to PROVED
VALID_TRANSITIONS_Redo ==
    [s \in JobStates |->
        CASE s = "CREATED"  -> <<"FUNDED">>
          [] s = "FUNDED"   -> <<"PROVED">>
          [] s = "PROVED"   -> <<"ATTESTED">>
          [] s = "ATTESTED" -> <<"SETTLED", "PROVED">>
          [] s = "SETTLED"  -> <<>>]

\* faulty variant: a settled job may be funded again
VALID_TRANSITIONS_Reopened ==
    [s \in JobStates |->
        CASE s = "CREATED"  -> <<"FUNDED">>
          [] s = "FUNDED"   -> <<"PROVED">>
          [] s = "PROVED"   -> <<"ATTESTED">>
          [] s = "ATTESTED" -> <<"SETTLED">>
          [] s = "SETTLED"  -> <<"FUNDED">>]

VALID_TRANSITIONS ==
    [s \in JobStates |->
        CASE s = "CREATED"  -> <<"FUNDED">>
          [] s = "FUNDED"   -> <<"PROVED">>
          [] s = "PROVED"   -> <<"ATTESTED">>
          [] s = "ATTESTED" -> <<"SETTLED">>
          [] s = "SETTLED"  -> <<>>]

\* the place in the heap of the array that is VALID_TRANSITIONS[state]
RowOf ==
    [s \in JobStates |->
        CASE s = "CREATED"  -> 1
          [] s = "FUNDED"   -> 2
          [] s = "PROVED"   -> 3
          [] s = "ATTESTED" -> 4
          [] s = "SETTLED"  -> 5]

\* the arrays when the module is loaded: the five rows of the table
InitialHeap ==
    << VALID_TRANSITIONS["CREATED"], VALID_TRANSITIONS["FUNDED"],
       VALID_TRANSITIONS["PROVED"], VALID_TRANSITIONS["ATTESTED"],
       VALID_TRANSITIONS["SETTLED"] >>

\* the table as it is now: each state with the items of its row
table == [s \in JobStates |-> heap[RowOf[s]]]

\* faulty variant: any move to another state is valid
isValidTransitionToOther(from, to) == from # to

\* array.includes(x)
includes(seq, x) == \E i \in 1..Len(seq) : seq[i] = x

\* VALID_TRANSITIONS[from].includes(to)
isValidTransition(from, to) == includes(heap[RowOf[from]], to)

\* faulty variant: getNextStates returns the row of the table itself
getNextStatesTheRow(state) == [heap |-> heap, ref |-> RowOf[state]]

\* [...VALID_TRANSITIONS[state]]: a new array that has the items of the
\* row.  The result is the reference to it and the heap that holds it.
getNextStates(state) ==
    [heap |-> Append(heap, heap[RowOf[state]]), ref |-> Len(heap) + 1]

\* the items of the array a call returned
itemsOf(returned) == returned.heap[returned.ref]

\* getNextStates(state).length === 0
isTerminal(state) == Len(itemsOf(getNextStates(state))) = 0

\* faulty variant: the reason lists the states allowed after the target
validateTransitionAllowedOfTo(from, to) ==
    IF ~isValidTransition(from, to)
    THEN LET allowed == itemsOf(getNextStates(to))
         IN  [valid |-> FALSE,
              reason |-> [from |-> from, to |-> to, allowed |-> allowed,
                          none |-> allowed = <<>>]]
    ELSE [valid |-> TRUE]

\* the reason names from, to and allowed.join(', '), or 'none (terminal
\* state)' for an array that has no items
validateTransition(from, to) ==
    IF ~isValidTransition(from, to)
    THEN LET allowed == itemsOf(getNextStates(from))
         IN  [valid |-> FALSE,
              reason |-> [from |-> from, to |-> to, allowed |-> allowed,
                          none |-> allowed = <<>>]]
    ELSE [valid |-> TRUE]

(***************************************************************************)
(* The in-memory Store.  A store value is the record of the Store's five   *)
(* fields; each method is an operator from a store to the store after the  *)
(* call (and, for a method that can throw, a predicate saying it throws).  *)
(***************************************************************************)
store == [agents |-> agents, offers |-> offers, jobs |-> jobs,
          eventLog |-> eventLog, eventLogId |-> eventLogId]

EmptyMap == [x \in {} |-> x]

EmptyStore == [agents |-> EmptyMap, offers |-> EmptyMap, jobs |-> EmptyMap,
               eventLog |-> <<>>, eventLogId |-> 0]

\* faulty variant: the has() guard is missing
insertAgentUnguarded(s, agent) == FALSE

\* this.agents.has(agent.did): insertAgent throws
insertAgentThrows(s, agent) == agent.did \in DOMAIN s.agents

\* this.agents.set(agent.did, agent), unless it throws
insertAgent(s, agent) ==
    IF insertAgentThrows(s, agent) THEN s
    ELSE [s EXCEPT !.agents = (agent.did :> agent) @@ @]

hasAgent(s, did) == did \in DOMAIN s.agents

getAgent(s, did) == s.agents[did]

\* faulty variant: the scan finds nothing
hasAgentByPublicKeyBlind(s, publicKey) == FALSE

\* getAgentByPublicKey(publicKey) !== undefined
hasAgentByPublicKey(s, publicKey) ==
    \E d \in DOMAIN s.agents : s.agents[d].publicKey = publicKey

insertOfferThrows(s, offer) == offer.id \in DOMAIN s.offers

insertOffer(s, offer) ==
    IF insertOfferThrows(s, offer) THEN s
    ELSE [s EXCEPT !.offers = (offer.id :> offer) @@ @]

hasOffer(s, id) == id \in DOMAIN s.offers

\* faulty variant: the has() guard is missing
insertJobUnguarded(s, job) == FALSE

\* this.jobs.has(job.id): insertJob throws
insertJobThrows(s, job) == job.id \in DOMAIN s.jobs

insertJob(s, job) ==
    IF insertJobThrows(s, job) THEN s
    ELSE [s EXCEPT !.jobs = (job.id :> job) @@ @]

hasJob(s, id) == id \in DOMAIN s.jobs

getJob(s, id) == s.jobs[id]

updateJobStateThrows(s, jobId) == jobId \notin DOMAIN s.jobs

updateJobState(s, jobId, newState) ==
    IF updateJobStateThrows(s, jobId) THEN s
    ELSE [s EXCEPT !.jobs[jobId].state = newState]

\* faulty variant: the entry is written over the last entry of the log
insertEventLogEntryOverLast(s, entry) ==
    [s EXCEPT !.eventLogId = @ + 1,
              !.eventLog = IF @ = <<>>
                           THEN <<[id |-> s.eventLogId + 1] @@ entry>>
                           ELSE [@ EXCEPT ![Len(@)] =
                                   [id |-> s.eventLogId + 1] @@ entry]]

\* faulty variant: the id is taken before the counter is incremented
insertEventLogEntryStaleId(s, entry) ==
    [s EXCEPT !.eventLogId = @ + 1,
              !.eventLog = Append(@, [id |-> s.eventLogId] @@ entry)]

\* faulty variant: the entry is put at the front of the array (unshift)
insertEventLogEntryUnshift(s, entry) ==
    [s EXCEPT !.eventLogId = @ + 1,
              !.eventLog = <<[id |-> s.eventLogId + 1] @@ entry>> \o @]

\* this.eventLogId++; push({ ...entry, id: this.eventLogId }): an id the
\* entry came with is overwritten
insertEventLogEntry(s, entry) ==
    [s EXCEPT !.eventLogId = @ + 1,
              !.eventLog = Append(@, [id |-> s.eventLogId + 1] @@ entry)]

RECURSIVE filterByJob(_, _)
filterByJob(log, jobId) ==
    IF log = <<>> THEN <<>>
    ELSE IF Head(log).jobId = jobId
         THEN <<Head(log)>> \o filterByJob(Tail(log), jobId)
         ELSE filterByJob(Tail(log), jobId)

\* faulty variant: the filter on the job is missing
getEventLogEntriesOfAllJobs(s, jobId) == s.eventLog

getEventLogEntriesByJobId(s, jobId) == filterByJob(s.eventLog, jobId)

getAllEventLogEntries(s) == s.eventLog

\* undefined for a job that has no events, else the previousHash of the
\* job's last entry
getLastEventHashForJob(s, jobId) ==
    LET entries == getEventLogEntriesByJobId(s, jobId)
    IN  IF Len(entries) = 0 THEN Undefined
        ELSE entries[Len(entries)].previousHash

\* db.ts getDB: throws when the module's store is null
getDBThrows == db = "null"

(***************************************************************************)
(* HTTP.  A request body is a record that has the fields the JSON body     *)
(* has (payload, signature, signerId), so a missing field is a missing     *)
(* record field.  A handler is an operator from the store and the request  *)
(* to the response and the store after it.                                 *)
(***************************************************************************)
Reply(status, error, s) == [status |-> status, error |-> error, store |-> s]

\* !body.signature, !signature: the field is missing or the empty string
noSignature(body) ==
    "signature" \notin DOMAIN body \/ body.signature = EmptySignature

\* !body.signerId: the field is missing or the empty string
noSignerId(body) ==
    "signerId" \notin DOMAIN body \/ body.signerId = EmptySignerId

\* faulty variant: the middleware looks the signer up and verifies nothing
verifySignatureUnverified(s, method, path, body) ==
    IF method = "GET" THEN [next |-> TRUE]
    ELSE IF method = "POST" /\ path = "/agents" THEN [next |-> TRUE]
    ELSE IF \/ noSignature(body)
            \/ noSignerId(body)
            \/ "payload" \notin DOMAIN body
    THEN [next |-> FALSE, status |-> 400,
          error |-> "Missing required signature fields"]
    ELSE IF body.signerId \notin DOMAIN s.agents
    THEN [next |-> FALSE, status |-> 401, error |-> "Agent not found"]
    ELSE [next |-> TRUE, verifiedAgent |-> body.signerId]

\* faulty variant: a registration's signature is not verified
registrationUnchecked(body) == TRUE

\* faulty variant: the signer is looked up before the fields are checked
verifySignatureLookupFirst(s, method, path, body) ==
    IF method = "GET" THEN [next |-> TRUE]
    ELSE IF method = "POST" /\ path = "/agents" THEN [next |-> TRUE]
    ELSE IF ~noSignerId(body) /\ ~hasAgent(s, body.signerId)
    THEN [next |-> FALSE, status |-> 401, error |-> "Agent not found"]
    ELSE IF \/ noSignature(body)
            \/ noSignerId(body)
            \/ "payload" \notin DOMAIN body
    THEN [next |-> FALSE, status |-> 400,
          error |-> "Missing required signature fields"]
    ELSE IF ~verify(canonicalBytes(body.payload), body.signature,
                    getAgent(s, body.signerId).publicKey)
    THEN [next |-> FALSE, status |-> 401, error |-> "Invalid signature"]
    ELSE [next |-> TRUE, verifiedAgent |-> body.signerId]

\* middleware.ts verifySignature: next() or the response that ends the request
verifySignature(s, method, path, body) ==
    IF method = "GET" THEN [next |-> TRUE]
    ELSE IF method = "POST" /\ path = "/agents" THEN [next |-> TRUE]
    ELSE IF \/ noSignature(body)
            \/ noSignerId(body)
            \/ "payload" \notin DOMAIN body
    THEN [next |-> FALSE, status |-> 400,
          error |-> "Missing required signature fields"]
    ELSE IF getDBThrows
    THEN [next |-> FALSE, status |-> 500,
          error |-> "Signature verification error"]
    ELSE IF ~hasAgent(s, body.signerId)
    THEN [next |-> FALSE, status |-> 401, error |-> "Agent not found"]
    ELSE IF ~verify(canonicalBytes(body.payload), body.signature,
                    getAgent(s, body.signerId).publicKey)
    THEN [next |-> FALSE, status |-> 401, error |-> "Invalid signature"]
    ELSE [next |-> TRUE, verifiedAgent |-> body.signerId]

\* faulty variant: the expected identifier is cut from a fixed key
expectedDIDFixed(publicKey) == <<"did:atn:", 2>>

\* routes-agents.ts POST /agents:
\* `did:atn:${payload.publicKey.substring(0, 16)}`
expectedDID(publicKey) == <<"did:atn:", substring16(publicKey)>>

\* routes-agents.ts POST /agents: the signature check of the registration
registrationIsValid(body) ==
    verify(canonicalBytes(body.payload), body.signature,
           valueOf(Field(body.payload, "publicKey")))

\* faulty variant: the signerId is compared before the signature is verified
postAgentsIdFirst(s, body, now) ==
    IF \/ "payload" \notin DOMAIN body
       \/ noSignature(body)
    THEN Reply(400, "Invalid agent payload", s)
    ELSE IF \/ ~truthy(body.payload)
            \/ ~Has(body.payload, "name")
            \/ ~Has(body.payload, "publicKey")
    THEN Reply(400, "Invalid agent payload", s)
    ELSE IF \/ "signerId" \notin DOMAIN body
            \/ body.signerId #
                 expectedDID(valueOf(Field(body.payload, "publicKey")))
    THEN Reply(400, "Invalid signerId", s)
    ELSE IF ~registrationIsValid(body)
    THEN Reply(401, "Invalid signature", s)
    ELSE IF getDBThrows
    THEN Reply(500, "Failed to register agent", s)
    ELSE IF hasAgentByPublicKey(s,
                valueOf(Field(body.payload, "publicKey")))
    THEN Reply(409, "Agent already registered", s)
    ELSE LET agent == [did |-> body.signerId,
                       publicKey |->
                           valueOf(Field(body.payload, "publicKey")),
                       name |-> valueOf(Field(body.payload, "name")),
                       registeredAt |-> now]
         IN  IF insertAgentThrows(s, agent)
             THEN Reply(500, "Failed to register agent", s)
             ELSE Reply(201, "", insertAgent(s, agent))

\* routes-agents.ts POST /agents
postAgents(s, body, now) ==
    IF \/ "payload" \notin DOMAIN body
       \/ noSignature(body)
    THEN Reply(400, "Invalid agent payload", s)
    ELSE IF \/ ~truthy(body.payload)
            \/ ~Has(body.payload, "name")
            \/ ~Has(body.payload, "publicKey")
    THEN Reply(400, "Invalid agent payload", s)
    ELSE IF ~registrationIsValid(body)
    THEN Reply(401, "Invalid signature", s)
    ELSE IF \/ "signerId" \notin DOMAIN body
            \/ body.signerId #
                 expectedDID(valueOf(Field(body.payload, "publicKey")))
    THEN Reply(400, "Invalid signerId", s)
    ELSE IF getDBThrows
    THEN Reply(500, "Failed to register agent", s)
    ELSE IF hasAgentByPublicKey(s,
                valueOf(Field(body.payload, "publicKey")))
    THEN Reply(409, "Agent already registered", s)
    ELSE LET agent == [did |-> body.signerId,
                       publicKey |->
                           valueOf(Field(body.payload, "publicKey")),
                       name |-> valueOf(Field(body.payload, "name")),
                       registeredAt |-> now]
         IN  IF insertAgentThrows(s, agent)
             THEN Reply(500, "Failed to register agent", s)
             ELSE Reply(201, "", insertAgent(s, agent))

\* routes-offers.ts POST /offers (offerId is the id the handler generates)
postOffers(s, body, offerId, now) ==
    IF \/ ~truthy(body.payload)
       \/ ~Has(body.payload, "capability")
       \/ ~Has(body.payload, "description")
       \/ ~Has(body.payload, "pricePerJob")
    THEN Reply(400, "Invalid offer payload", s)
    ELSE IF getDBThrows
    THEN Reply(500, "Failed to publish offer", s)
    ELSE IF ~hasAgent(s, body.signerId)
    THEN Reply(401, "Agent not found", s)
    ELSE LET offer == [id |-> offerId,
                       providerId |-> body.signerId,
                       capability |->
                           valueOf(Field(body.payload, "capability")),
                       description |->
                           valueOf(Field(body.payload, "description")),
                       inputSchema |->
                           JSONstringify(
                               IF Has(body.payload, "inputSchema")
                               THEN Field(body.payload, "inputSchema")
                               ELSE Obj(<<>>)),
                       outputSchema |->
                           JSONstringify(
                               IF Has(body.payload, "outputSchema")
                               THEN Field(body.payload, "outputSchema")
                               ELSE Obj(<<>>)),
                       pricePerJob |->
                           valueOf(Field(body.payload, "pricePerJob")),
                       publishedAt |-> now]
         IN  IF insertOfferThrows(s, offer)
             THEN Reply(500, "Failed to publish offer", s)
             ELSE Reply(201, "", insertOffer(s, offer))

(***************************************************************************)
(* The job lifecycle handlers (routes-jobs.ts): POST /jobs and POST        *)
(* /jobs/:id/fund, /proof and /attest.                                     *)
(***************************************************************************)
\* lastHash ?? genesis
orGenesis(lastHash) == IF lastHash = Undefined THEN GenesisHash ELSE lastHash

\* db.getLastEventHashForJob(jobId) ?? genesis
previousHashFor(s, jobId) == orGenesis(getLastEventHashForJob(s, jobId))

appendEvent(s, jobId, eventType, actor, payload, signature, now) ==
    insertEventLogEntry(s,
        [jobId |-> jobId, eventType |-> eventType, actor |-> actor,
         previousHash |-> previousHashFor(s, jobId),
         payload |-> canonicalize(payload),
         signature |-> signature, createdAt |-> now])

\* POST /jobs (jobId is the id the handler generates)
postJobs(s, body, jobId, now) ==
    IF \/ ~truthy(body.payload)
       \/ ~Has(body.payload, "offerId")
       \/ ~Has(body.payload, "providerId")
       \/ ~Has(body.payload, "requiredAttestations")
    THEN Reply(400, "Invalid job payload", s)
    ELSE IF ~hasOffer(s, valueOf(Field(body.payload, "offerId")))
    THEN Reply(404, "Offer not found", s)
    ELSE LET job == [id |-> jobId,
                     offerId |-> valueOf(Field(body.payload, "offerId")),
                     clientId |-> body.signerId,
                     providerId |->
                         valueOf(Field(body.payload, "providerId")),
                     state |-> "CREATED",
                     requiredAttestations |->
                         valueOf(Field(body.payload, "requiredAttestations")),
                     timeoutSeconds |->
                         valueOf(Field(body.payload, "timeoutSeconds")),
                     escrowAmount |->
                         valueOf(Field(body.payload, "escrowAmount")),
                     createdAt |-> now]
         IN  IF insertJobThrows(s, job)
             THEN Reply(500, "Failed to create job", s)
             ELSE Reply(201, "",
                        appendEvent(insertJob(s, job), jobId, "JOB_CREATED",
                                    body.signerId, body.payload,
                                    body.signature, now))

\* the edge a job route asks for
EdgeOf(route) ==
    CASE route = "/jobs/:id/fund" ->
            [to |-> "FUNDED", eventType |-> "JOB_FUNDED"]
      [] route = "/jobs/:id/proof" ->
            [to |-> "PROVED", eventType |-> "JOB_PROVED"]
      [] route = "/jobs/:id/attest" ->
            [to |-> "ATTESTED", eventType |-> "JOB_ATTESTED"]

\* faulty variant: any registered agent may ask for any edge
authorizedActorAnyone(s, route, jobId, signerId) == hasAgent(s, signerId)

\* the actor of the edge: the job's client funds, the job's provider
\* submits the proof, a registered witness attests
authorizedActor(s, route, jobId, signerId) ==
    CASE route = "/jobs/:id/fund" -> signerId = getJob(s, jobId).clientId
      [] route = "/jobs/:id/proof" -> signerId = getJob(s, jobId).providerId
      [] route = "/jobs/:id/attest" -> hasAgent(s, signerId)

\* the witnesses whose attestations the chain of the job holds, each once
attestedBy(s, jobId) ==
    LET chain == getEventLogEntriesByJobId(s, jobId)
    IN  { chain[i].actor :
            i \in { m \in 1..Len(chain) :
                      chain[m].eventType = "JOB_ATTESTED" } }

\* faulty variant: every attestation counts, also a witness's second
quorumMetCountingEvents(s, jobId) ==
    LET chain == getEventLogEntriesByJobId(s, jobId)
    IN  Cardinality({ m \in 1..Len(chain) :
                        chain[m].eventType = "JOB_ATTESTED" })
            >= getJob(s, jobId).requiredAttestations

\* the distinct witnesses that attested the job have reached its
\* requiredAttestations
quorumMet(s, jobId) ==
    Cardinality(attestedBy(s, jobId)) >= getJob(s, jobId).requiredAttestations

\* faulty variant: a refused request is logged all the same
postJobTransitionLogsRefusal(s, route, jobId, body, now) ==
    IF ~hasJob(s, jobId) THEN Reply(404, "Job not found", s)
    ELSE LET appended ==
                 appendEvent(s, jobId, EdgeOf(route).eventType,
                             body.signerId, body.payload, body.signature,
                             now)
         IN  IF \/ ~validateTransition(getJob(s, jobId).state,
                                       EdgeOf(route).to).valid
                \/ ~authorizedActor(s, route, jobId, body.signerId)
             THEN Reply(400, "Invalid transition", appended)
             ELSE IF route = "/jobs/:id/attest" /\ ~quorumMet(appended, jobId)
             THEN Reply(200, "", appended)
             ELSE Reply(200, "",
                        updateJobState(appended, jobId, EdgeOf(route).to))

\* faulty variant: the state is changed and no event is appended
postJobTransitionSilent(s, route, jobId, body, now) ==
    IF ~hasJob(s, jobId) THEN Reply(404, "Job not found", s)
    ELSE IF \/ ~validateTransition(getJob(s, jobId).state,
                                   EdgeOf(route).to).valid
            \/ ~authorizedActor(s, route, jobId, body.signerId)
    THEN Reply(400, "Invalid transition", s)
    ELSE Reply(200, "", updateJobState(s, jobId, EdgeOf(route).to))

\* faulty variant: the state machine is not asked
postJobTransitionUnchecked(s, route, jobId, body, now) ==
    IF ~hasJob(s, jobId) THEN Reply(404, "Job not found", s)
    ELSE IF ~authorizedActor(s, route, jobId, body.signerId)
    THEN Reply(400, "Invalid transition", s)
    ELSE LET appended ==
                 appendEvent(s, jobId, EdgeOf(route).eventType,
                             body.signerId, body.payload, body.signature,
                             now)
         IN  IF route = "/jobs/:id/attest" /\ ~quorumMet(appended, jobId)
             THEN Reply(200, "", appended)
             ELSE Reply(200, "",
                        updateJobState(appended, jobId, EdgeOf(route).to))

\* POST /jobs/:id/fund, /jobs/:id/proof, /jobs/:id/attest: the state
\* machine's check of the edge and of the actor's role, then the event,
\* then the new state.  An attestation is an event of its own; the job
\* becomes ATTESTED with the attestation that meets the quorum.
postJobTransition(s, route, jobId, body, now) ==
    IF ~hasJob(s, jobId) THEN Reply(404, "Job not found", s)
    ELSE IF \/ ~validateTransition(getJob(s, jobId).state,
                                   EdgeOf(route).to).valid
            \/ ~authorizedActor(s, route, jobId, body.signerId)
    THEN Reply(400, "Invalid transition", s)
    ELSE LET appended ==
                 appendEvent(s, jobId, EdgeOf(route).eventType,
                             body.signerId, body.payload, body.signature,
                             now)
         IN  IF route = "/jobs/:id/attest" /\ ~quorumMet(appended, jobId)
             THEN Reply(200, "", appended)
             ELSE Reply(200, "",
                        updateJobState(appended, jobId, EdgeOf(route).to))

(***************************************************************************)
(* The express application: the middleware, then the route's handler.      *)
(***************************************************************************)
handle(s, route, jobId, body, fresh, now) ==
    CASE route = "/agents" -> postAgents(s, body, now)
      [] route = "/offers" -> postOffers(s, body, fresh, now)
      [] route = "/jobs"   -> postJobs(s, body, fresh, now)
      [] OTHER             -> postJobTransition(s, route, jobId, body, now)

serve(s, route, jobId, body, fresh, now) ==
    LET mw == verifySignature(s, "POST", route, body)
    IN  IF mw.next
        THEN handle(s, route, jobId, body, fresh, now) @@ [next |-> TRUE]
        ELSE Reply(mw.status, mw.error, s) @@ [next |-> FALSE]

(***************************************************************************)
(* The requests.  trustctl's sendSignedRequest builds the envelope of an   *)
(* agent that signs its own request; any holder of a key may also sign     *)
(* what it likes and claim what it likes.                                  *)
(***************************************************************************)
\* faulty variant: the client signs the payload as it was written, keys in
\* insertion order
sendSignedRequestUnsorted(payload, publicKey, secretKey) ==
    LET body == IF truthy(payload) THEN payload ELSE Obj(<<>>)
    IN  [payload |-> body,
         signature |-> sign(JSONstringify(body), secretKey),
         signerId |-> deriveDid(publicKey)]

\* client.ts sendSignedRequest: the request body
sendSignedRequest(payload, publicKey, secretKey) ==
    LET body == IF truthy(payload) THEN payload ELSE Obj(<<>>)
    IN  [payload |-> body,
         signature |-> sign(canonicalBytes(body), secretKey),
         signerId |-> deriveDid(publicKey)]

SignedBodies(payload) ==
    { sendSignedRequest(payload, k, secretKeyOf(k)) : k \in Keys }

Tampered(payload) == Obj(Append(payload.v, <<"tampered", Str("x")>>))

\* bodies no honest client sends: another agent's identifier, a signature
\* over other bytes, a malformed signature, an empty signature, an empty
\* signerId, a missing field
ForgedBodies(payload) ==
    { [payload |-> payload,
       signature |-> sign(canonicalBytes(payload), secretKeyOf(kd[1])),
       signerId |-> kd[2]] :
         kd \in { x \in Keys \X DIDs : x[2] # deriveDid(x[1]) } }
      \cup { [payload |-> payload,
              signature |-> sign(canonicalBytes(Tampered(payload)),
                                 secretKeyOf(k)),
              signerId |-> deriveDid(k)] : k \in Keys }
      \cup { [payload |-> payload, signature |-> MalformedSig,
              signerId |-> d] : d \in DIDs }
      \cup { [payload |-> payload, signature |-> EmptySignature,
              signerId |-> d] : d \in DIDs }
      \cup { [payload |-> payload,
              signature |-> sign(canonicalBytes(payload), secretKeyOf(k)),
              signerId |-> EmptySignerId] :
               k \in { [pre |-> 1, suf |-> 1, pad |-> "="] } }
      \cup { [payload |-> payload,
              signature |-> sign(canonicalBytes(payload), secretKeyOf(k))] :
               k \in Keys }
      \cup { [payload |-> payload, signerId |-> deriveDid(k)] :
               k \in { [pre |-> 1, suf |-> 1, pad |-> "="] } }
      \cup { [signature |-> sign(canonicalBytes(payload), secretKeyOf(k)),
              signerId |-> deriveDid(k)] :
               k \in { [pre |-> 1, suf |-> 1, pad |-> "="] } }

PlainAgentPayloads ==
    { Obj(<< <<"name", Str("agent")>>, <<"publicKey", Str(k)>> >>) :
        k \in { [pre |-> 1, suf |-> 1, pad |-> "="],
                [pre |-> 2, suf |-> 2, pad |-> "="] } }

\* { name, publicKey } as trustctl sends it; the same with its keys in the
\* other order, without a name, with an empty name, and with its key
\* written without the padding
AgentPayloads ==
    { Obj(<< <<"name", Str("agent")>>, <<"publicKey", Str(k)>> >>) :
        k \in Keys }
      \cup { Obj(<< <<"publicKey", Str(k)>>, <<"name", Str("agent")>> >>) :
                k \in { [pre |-> 2, suf |-> 2, pad |-> "="] } }
      \cup { Obj(<< <<"publicKey", Str(k)>> >>) :
                k \in { [pre |-> 1, suf |-> 1, pad |-> "="] } }
      \cup { Obj(<< <<"name", EmptyString>>, <<"publicKey", Str(k)>> >>) :
                k \in { [pre |-> 1, suf |-> 1, pad |-> "="] } }
      \cup { Obj(<< <<"name", Str("agent")>>, <<"publicKey", Str(k)>> >>) :
                k \in { [pre |-> 1, suf |-> 1, pad |-> ""] } }

\* the payload of `offers publish dns_audit --price 1000`
PlainOfferPayload ==
    Obj(<< <<"capability", Str("dns_audit")>>,
           <<"description", Str("dns_audit service")>>,
           <<"inputSchema", Obj(<< <<"type", Str("object")>> >>)>>,
           <<"outputSchema", Obj(<< <<"type", Str("object")>> >>)>>,
           <<"pricePerJob", Num(1000)>> >>)

\* that payload; an offer without schemas, its keys out of order; one
\* without a description; one with price 0
OfferPayloads ==
    { PlainOfferPayload,
      Obj(<< <<"pricePerJob", Num(1000)>>,
             <<"outputSchema", Obj(<< <<"type", Str("object")>> >>)>>,
             <<"inputSchema", Obj(<< <<"type", Str("object")>> >>)>>,
             <<"capability", Str("dns_audit")>>,
             <<"description", Str("dns_audit service")>> >>),
      Obj(<< <<"capability", Str("dns_audit")>>,
             <<"pricePerJob", Num(1000)>> >>),
      Obj(<< <<"capability", Str("dns_audit")>>,
             <<"description", Str("dns_audit service")>>,
             <<"pricePerJob", Num(0)>> >>) }

JobPayload(o, d, r) ==
    Obj(<< <<"offerId", Str(o)>>, <<"providerId", Str(d)>>,
           <<"requiredAttestations", Num(r)>>,
           <<"timeoutSeconds", Num(3600)>>, <<"escrowAmount", Num(1000)>> >>)

JobPayloads ==
    { JobPayload(o, d, r) : o \in 1..MaxOffers, d \in DIDs, r \in 1..MaxReq }
      \cup { Obj(<< <<"offerId", Str(o)>> >>) : o \in 1..MaxOffers }

TransitionPayloads(route) ==
    CASE route = "/jobs/:id/fund" -> { Obj(<<>>) }
      [] route = "/jobs/:id/proof" ->
            { Obj(<< <<"proofHash", Str("deliverable")>> >>) }
      [] route = "/jobs/:id/attest" ->
            { Obj(<< <<"attestationType", Str("DELIVERED_OK")>> >>) }

(***************************************************************************)
(* The node, serving one request at a time to its end.                     *)
(***************************************************************************)
Callers == {1, 2}

\* Math.floor(Date.now() / 1000)
Times == 0..MaxTime

NoRequest == [route |-> "none", job |-> 0, status |-> 0, error |-> "",
              next |-> FALSE]

\* app.listen(PORT): the server accepts connections
Listening == [state |-> "listening", inFlight |-> 0]

\* server.close(callback) was called: the server accepts no connection, and
\* answers the requests of the connections it has (inFlight of them)
Closing(n) == [state |-> "closing", inFlight |-> n]

\* the close callback ran: closeDB(); process.exit(0)
Exited == [state |-> "exited", inFlight |-> 0]

Init ==
    /\ db = "Store"
    /\ agents = EmptyMap
    /\ offers = EmptyMap
    /\ jobs = EmptyMap
    /\ eventLog = <<>>
    /\ eventLogId = 0
    /\ last = NoRequest
    /\ tail = [c \in Callers |-> [job |-> 0]]
    /\ query = [state |-> "CREATED", op |-> "none"]
    /\ server = Listening
    /\ heap = InitialHeap

SetStore(s) ==
    /\ UNCHANGED db
    /\ agents' = s.agents
    /\ offers' = s.offers
    /\ jobs' = s.jobs
    /\ eventLog' = s.eventLog
    /\ eventLogId' = s.eventLogId

\* One request.  The body is kept in last when the request passed its
\* signature check (for a registration: when it was accepted).
Request(route, jobId, body, fresh) ==
    \E now \in Times :
    LET out == serve(store, route, jobId, body, fresh, now)
        kept == out.next /\ (route = "/agents" => out.status = 201)
    IN  /\ \/ server.state = "listening"
           \/ server.state = "closing" /\ server.inFlight > 0
        /\ Len(out.store.eventLog) <= MaxLog
        /\ SetStore(out.store)
        /\ last' = [route |-> route, job |-> jobId, status |-> out.status,
                    error |-> out.error, next |-> out.next]
                     @@ (IF kept THEN [body |-> body] ELSE EmptyMap)
        /\ server' = IF server.state = "closing"
                     THEN Closing(server.inFlight - 1)
                     ELSE server
        /\ UNCHANGED <<heap, tail, query>>

PostAgents ==
    \/ \E p \in AgentPayloads : \E b \in SignedBodies(p) :
          Request("/agents", 0, b, 0)
    \/ \E p \in PlainAgentPayloads : \E b \in ForgedBodies(p) :
          Request("/agents", 0, b, 0)

PostOffers ==
    /\ Cardinality(DOMAIN offers) < MaxOffers
    /\ \/ \E p \in OfferPayloads : \E b \in SignedBodies(p) :
             Request("/offers", 0, b, Cardinality(DOMAIN offers) + 1)
       \/ \E b \in ForgedBodies(PlainOfferPayload) :
             Request("/offers", 0, b, Cardinality(DOMAIN offers) + 1)

PostJobs ==
    /\ Cardinality(DOMAIN jobs) < MaxJobs
    /\ \/ \E p \in JobPayloads : \E b \in SignedBodies(p) :
             Request("/jobs", 0, b, Cardinality(DOMAIN jobs) + 1)
       \/ \E o \in DOMAIN offers :
             \E b \in ForgedBodies(JobPayload(o, offers[o].providerId, 1)) :
               Request("/jobs", 0, b, Cardinality(DOMAIN jobs) + 1)

PostTransition(route) ==
    \E j \in 1..MaxJobs : \E p \in TransitionPayloads(route) :
         \E b \in SignedBodies(p)
                    \cup (IF route = "/jobs/:id/fund" THEN ForgedBodies(p)
                          ELSE {}) :
           Request(route, j, b, 0)

Fund == PostTransition("/jobs/:id/fund")

SubmitProof == PostTransition("/jobs/:id/proof")

Attest == PostTransition("/jobs/:id/attest")

\* db.ts closeDB: store = null.  The Store it held is not changed.
closeDB ==
    /\ db' = "null"
    /\ UNCHANGED <<agents, offers, jobs, eventLog, eventLogId>>

\* db.ts initializeDB: the store the module holds, or a new Store
initializeDB ==
    IF db = "Store" THEN UNCHANGED storeVars
    ELSE /\ db' = "Store"
         /\ agents' = EmptyStore.agents
         /\ offers' = EmptyStore.offers
         /\ jobs' = EmptyStore.jobs
         /\ eventLog' = EmptyStore.eventLog
         /\ eventLogId' = EmptyStore.eventLogId

\* process.on('SIGTERM'): server.close(callback).  The server stops
\* accepting connections; the requests of the connections it has are still
\* answered, with the store open.
Sigterm ==
    /\ server.state = "listening"
    /\ \E n \in 0..MaxInFlight : server' = Closing(n)
    /\ last' = [NoRequest EXCEPT !.route = "SIGTERM"]
    /\ UNCHANGED <<storeVars, heap, tail, query>>

\* the callback of server.close, called when the last connection has
\* ended: closeDB(); process.exit(0)
ServerClosed ==
    /\ server.state = "closing"
    /\ server.inFlight = 0
    /\ closeDB
    /\ server' = Exited
    /\ last' = [NoRequest EXCEPT !.route = "close"]
    /\ UNCHANGED <<heap, tail, query>>

\* the requests the node answers
Serve ==
    \/ PostAgents
    \/ PostOffers
    \/ PostJobs
    \/ Fund
    \/ SubmitProof
    \/ Attest

Next ==
    \/ Serve
    \/ Sigterm
    \/ ServerClosed

Spec == Init /\ [][Next]_vars

\* the node with its event loop: a callback that is due is run.  Requests
\* are the agents' to send or not, and nothing in the node acts without
\* one but the close callback.
FairSpec == Spec /\ WF_vars(ServerClosed)

(***************************************************************************)
(* The Store under callers that are each between two of its methods: a     *)
(* caller reads a job's tail with getLastEventHashForJob, and appends with *)
(* insertEventLogEntry in a later step.                                    *)
(***************************************************************************)
NoTail == [job |-> 0]

StoreInit == Init

StoreInsertJob ==
    \E j \in 1..MaxStoreJobs :
        /\ ~getDBThrows
        /\ SetStore(insertJob(store, [id |-> j, state |-> "CREATED"]))
        /\ UNCHANGED <<moduleVars, last, tail, query>>

StoreUpdateJobState ==
    \E j \in 1..MaxStoreJobs :
        /\ ~getDBThrows
        /\ SetStore(updateJobState(store, j, "FUNDED"))
        /\ UNCHANGED <<moduleVars, last, tail, query>>

ReadTail ==
    \E c \in Callers : \E j \in 1..MaxStoreJobs :
        /\ ~getDBThrows
        /\ tail[c] = NoTail
        /\ tail' = [tail EXCEPT ![c] =
                      [job |-> j,
                       previousHash |-> getLastEventHashForJob(store, j)]]
        /\ UNCHANGED <<moduleVars, storeVars, last,
                       query>>

AppendAtTail ==
    \E c \in Callers :
        /\ ~getDBThrows
        /\ tail[c] # NoTail
        /\ Len(eventLog) < MaxStoreLog
        /\ SetStore(insertEventLogEntry(store,
               [jobId |-> tail[c].job, eventType |-> "JOB_FUNDED",
                actor |-> c,
                previousHash |-> orGenesis(tail[c].previousHash),
                payload |-> canonicalize(Obj(<<>>)),
                signature |-> [caller |-> c],
                createdAt |-> 0]))
        /\ tail' = [tail EXCEPT ![c] = NoTail]
        /\ UNCHANGED <<moduleVars, last, query>>

\* a caller reads a job's events (the audit bundle of the job); the read is
\* kept with the log as it was when it was made
ReadEvents ==
    \E j \in 1..MaxStoreJobs :
        /\ ~getDBThrows
        /\ query' = [op |-> "getEventLogEntriesByJobId", job |-> j,
                     log |-> getAllEventLogEntries(store),
                     result |-> getEventLogEntriesByJobId(store, j)]
        /\ UNCHANGED <<moduleVars, storeVars, last,
                       tail>>

\* closeDB(), between two calls of any caller; the tail a caller read of
\* the store it had stays with the caller
CloseDB ==
    /\ db = "Store"
    /\ closeDB
    /\ last' = [op |-> "closeDB", threw |-> FALSE]
    /\ query' = [state |-> "CREATED", op |-> "closeDB"]
    /\ UNCHANGED <<moduleVars, tail>>

\* initializeDB(), by any caller
InitializeDB ==
    /\ initializeDB
    /\ last' = [op |-> "initializeDB", threw |-> FALSE]
    /\ UNCHANGED <<moduleVars, tail, query>>

StoreNext ==
    \/ CloseDB
    \/ InitializeDB
    \/ StoreInsertJob
    \/ StoreUpdateJobState
    \/ ReadTail
    \/ AppendAtTail
    \/ ReadEvents

StoreSpec == StoreInit /\ [][StoreNext]_vars

(***************************************************************************)
(* The state machine's functions, called with every pair of states, and a  *)
(* job state that moves where validateTransition lets it.                  *)
(***************************************************************************)
MachineInit == Init

CallIsValidTransition ==
    \E from \in JobStates, to \in JobStates :
        /\ query' = [state |-> query.state, op |-> "isValidTransition",
                     from |-> from, to |-> to,
                     result |-> isValidTransition(from, to)]
        /\ UNCHANGED <<moduleVars, storeVars, last, tail>>

\* the caller keeps the array it was returned
CallGetNextStates ==
    \E from \in JobStates :
        LET returned == getNextStates(from)
        IN  /\ Len(heap) < Len(InitialHeap) + MaxArrays
            /\ heap' = returned.heap
            /\ query' = [state |-> query.state, op |-> "getNextStates",
                         from |-> from, ref |-> returned.ref,
                         result |-> itemsOf(returned)]
            /\ UNCHANGED <<server, storeVars, last, tail>>

CallIsTerminal ==
    \E from \in JobStates :
        /\ query' = [state |-> query.state, op |-> "isTerminal",
                     from |-> from, result |-> isTerminal(from)]
        /\ UNCHANGED <<moduleVars, storeVars, last, tail>>

CallValidateTransition ==
    \E from \in JobStates, to \in JobStates :
        /\ query' = [state |-> query.state, op |-> "validateTransition",
                     from |-> from, to |-> to,
                     result |-> validateTransition(from, to)]
        /\ UNCHANGED <<moduleVars, storeVars, last, tail>>

\* a caller that moves a state only where validateTransition says valid
Advance ==
    \E to \in JobStates :
        LET result == validateTransition(query.state, to)
        IN  /\ query' = [state |-> IF result.valid THEN to ELSE query.state,
                         op |-> "advance", from |-> query.state, to |-> to,
                         result |-> result]
            /\ UNCHANGED <<moduleVars, storeVars, last,
                           tail>>

\* nextStates.push(x): the caller adds an item to the array it was
\* returned
ModifyNextStates ==
    /\ query.op \in {"getNextStates", "push"}
    /\ Len(heap[query.ref]) < MaxItems
    /\ \E x \in JobStates :
          /\ heap' = [heap EXCEPT ![query.ref] = Append(@, x)]
          /\ query' = [state |-> query.state, op |-> "push",
                       from |-> query.from, ref |-> query.ref,
                       result |-> Append(heap[query.ref], x)]
    /\ UNCHANGED <<server, storeVars, last, tail>>

\* a job taken from CREATED through the transitions validateTransition
\* accepts; path keeps the states it went through
Walk ==
    /\ query.op \in {"none", "walk"}
    /\ LET path == IF query.op = "walk" THEN query.path ELSE <<"CREATED">>
       IN  /\ Len(path) <= MaxPath
           /\ \E to \in JobStates :
                /\ validateTransition(path[Len(path)], to).valid
                /\ query' = [state |-> to, op |-> "walk",
                             path |-> Append(path, to)]
    /\ UNCHANGED <<moduleVars, storeVars, last, tail>>

MachineNext ==
    \/ CallIsValidTransition
    \/ CallGetNextStates
    \/ CallIsTerminal
    \/ CallValidateTransition
    \/ Advance
    \/ ModifyNextStates
    \/ Walk

MachineSpec == MachineInit /\ [][MachineNext]_vars

(***************************************************************************)
(* The identifier derivations of the three parties, called on the same     *)
(* pair of public keys: the node's (POST /agents), the client's (deriveDid)*)
(* and the core library's (deriveAgentId).                                 *)
(***************************************************************************)
PublicKeys == [pre : 1..MaxPre, suf : 1..MaxSuf, pad : {"="}]

\* hash.digest('hex').substring(0, 16): the first 16 digits of the digest,
\* the other 48 are dropped
hexSubstring16(digest) == digest.first16

\* crypto.ts deriveAgentId
deriveAgentId(publicKey) == <<"agent_", hexSubstring16(sha256(publicKey))>>

DeriveInit == Init

PickKeys ==
    \E a \in PublicKeys, b \in PublicKeys :
        /\ query' = [op |-> "derive", a |-> a, b |-> b]
        /\ UNCHANGED <<moduleVars, storeVars, last, tail>>

CallExpectedDID ==
    /\ query.op = "derive"
    /\ "node" \notin DOMAIN query
    /\ query' = query @@ [node |-> <<expectedDID(query.a),
                                     expectedDID(query.b)>>]
    /\ UNCHANGED <<moduleVars, storeVars, last, tail>>

CallDeriveDid ==
    /\ query.op = "derive"
    /\ "client" \notin DOMAIN query
    /\ query' = query @@ [client |-> <<deriveDid(query.a),
                                       deriveDid(query.b)>>]
    /\ UNCHANGED <<moduleVars, storeVars, last, tail>>

CallDeriveAgentId ==
    /\ query.op = "derive"
    /\ "core" \notin DOMAIN query
    /\ query' = query @@ [core |-> <<deriveAgentId(query.a),
                                     deriveAgentId(query.b)>>]
    /\ UNCHANGED <<moduleVars, storeVars, last, tail>>

DeriveNext ==
    \/ PickKeys
    \/ CallExpectedDID
    \/ CallDeriveDid
    \/ CallDeriveAgentId

DeriveSpec == DeriveInit /\ [][DeriveNext]_vars

(***************************************************************************)
(* A hash chain built the way the hash tests build it: let hash =          *)
(* sha256('genesis'), and for each event hash = chainHash(hash, event).    *)
(* One field of one event may then be changed.                             *)
(***************************************************************************)
\* { type: 'created', data: 'event1' }, { type: 'funded', data: 'event2' },
\* { action: 'fund', amount: 100 }, { action: 'fund', amount: 200 }, and
\* the third with its keys in the other order
ChainPayloads ==
    { Obj(<< <<"type", Str("created")>>, <<"data", Str("event1")>> >>),
      Obj(<< <<"type", Str("funded")>>, <<"data", Str("event2")>> >>),
      Obj(<< <<"action", Str("fund")>>, <<"amount", Num(100)>> >>),
      Obj(<< <<"action", Str("fund")>>, <<"amount", Num(200)>> >>),
      Obj(<< <<"amount", Num(100)>>, <<"action", Str("fund")>> >>),
      Obj(<< <<"U+00E9", Num(100)>>, <<"U+0065 U+0301", Num(100)>> >>),
      Obj(<< <<"U+0065 U+0301", Num(100)>>, <<"U+00E9", Num(100)>> >>) }

\* sha256('genesis'), the hash the test's fold starts from
genesis == sha256(<<"g", "e", "n", "e", "s", "i", "s">>)

\* sha256('different event')
DifferentHash == sha256(<<"d", "i", "f", "f">>)

ChainInit == Init

chainEvents == IF query.op = "chain" THEN query.events ELSE <<>>

chainTail ==
    IF chainEvents = <<>> THEN genesis
    ELSE chainEvents[Len(chainEvents)].hash

\* hash = chainHash(hash, event)
ChainAppend ==
    /\ query.op \in {"none", "chain"}
    /\ query.op = "chain" => query.tampered = 0
    /\ Len(chainEvents) < MaxChain
    /\ \E p \in ChainPayloads :
          query' = [op |-> "chain", tampered |-> 0,
                    events |-> Append(chainEvents,
                        [previousHash |-> chainTail, payload |-> p,
                         hash |-> chainHash(chainTail, p)])]
    /\ UNCHANGED <<moduleVars, storeVars, last, tail>>

\* the hashes a changed field may be given
OtherHashes ==
    {genesis, DifferentHash}
      \cup { chainEvents[i].hash : i \in 1..Len(chainEvents) }

TamperPayload ==
    /\ query.op = "chain" /\ query.tampered = 0
    /\ \E k \in 1..Len(chainEvents) : \E p \in ChainPayloads :
          /\ canonicalize(p) # canonicalize(chainEvents[k].payload)
          /\ query' = [query EXCEPT !.tampered = k,
                                    !.events[k].payload = p]
    /\ UNCHANGED <<moduleVars, storeVars, last, tail>>

TamperHash ==
    /\ query.op = "chain" /\ query.tampered = 0
    /\ \E k \in 1..Len(chainEvents) : \E h \in OtherHashes :
          /\ h # chainEvents[k].hash
          /\ query' = [query EXCEPT !.tampered = k, !.events[k].hash = h]
    /\ UNCHANGED <<moduleVars, storeVars, last, tail>>

TamperPreviousHash ==
    /\ query.op = "chain" /\ query.tampered = 0
    /\ \E k \in 1..Len(chainEvents) : \E h \in OtherHashes :
          /\ h # chainEvents[k].previousHash
          /\ query' = [query EXCEPT !.tampered = k,
                                    !.events[k].previousHash = h]
    /\ UNCHANGED <<moduleVars, storeVars, last, tail>>

ChainNext ==
    \/ ChainAppend
    \/ TamperPayload
    \/ TamperHash
    \/ TamperPreviousHash

ChainSpec == ChainInit /\ [][ChainNext]_vars

(***************************************************************************)
(* The demo script (scripts/demo-e2e), in the order of its statements:     *)
(* Step 1 generates the key pairs of three agents, Step 2 signs a job,     *)
(* Step 3 pushes four signed events on a log, Step 4 verifies every        *)
(* event's signature and Step 5 asks the state machine about four          *)
(* transitions.  The key pairs and the clock are the script's inputs.      *)
(***************************************************************************)
\* ATN.generateKeypair()
generateKeypair(publicKey) ==
    [publicKey |-> publicKey, secretKey |-> secretKeyOf(publicKey)]

keypairs == IF query.op = "demo" THEN query.keypairs ELSE <<>>

agentA == keypairs[1]
agentB == keypairs[2]
agentC == keypairs[3]

agentADID == <<"did:atn:", substring16(agentA.publicKey)>>
agentBDID == <<"did:atn:", substring16(agentB.publicKey)>>
agentCDID == <<"did:atn:", substring16(agentC.publicKey)>>

jobPayload ==
    Obj(<< <<"offerId", Str("offer_123")>>, <<"clientId", Str(agentADID)>>,
           <<"providerId", Str(agentBDID)>>, <<"state", Str("CREATED")>>,
           <<"requiredAttestations", Num(1)>>,
           <<"escrowAmount", Num(1000)>> >>)

\* the types of Event 1 to Event 4
DemoOrder == <<"JOB_CREATED", "JOB_FUNDED", "JOB_PROVED", "JOB_ATTESTED">>

\* who signs an event of the type
demoAgent(type) ==
    CASE type = "JOB_CREATED" -> agentA
      [] type = "JOB_FUNDED" -> agentA
      [] type = "JOB_PROVED" -> agentB
      [] type = "JOB_ATTESTED" -> agentC

\* event1Payload .. event4Payload
eventPayload(type, now) ==
    LET actor == <<"did:atn:", substring16(demoAgent(type).publicKey)>>
        head == << <<"type", Str(type)>>, <<"jobId", Str("job_456")>>,
                   <<"actor", Str(actor)>> >>
        timestamp == <<"timestamp", Num(now)>>
    IN  CASE type = "JOB_CREATED" ->
                Obj(head \o <<timestamp>> \o jobPayload.v)
          [] type = "JOB_FUNDED" ->
                Obj(head \o << <<"amount", Num(1000)>>, timestamp >>)
          [] type = "JOB_PROVED" ->
                Obj(head \o
                    << <<"proofHash",
                         Str(sha256(<<"deliverable content">>))>>,
                       timestamp >>)
          [] type = "JOB_ATTESTED" ->
                Obj(head \o << <<"attestationType", Str("DELIVERED_OK")>>,
                               timestamp >>)

\* Step 4: the key an event's signature is verified against
demoPubKey(event) ==
    IF event.actor = agentADID THEN agentA.publicKey
    ELSE IF event.actor = agentBDID THEN agentB.publicKey
    ELSE agentC.publicKey

\* Step 4: allValid after the loop over the events
allValid(events) ==
    \A i \in 1..Len(events) :
        verify(canonicalBytes(events[i].payload), events[i].signature,
               demoPubKey(events[i]))

\* Step 5: the transitions the script checks
transitions ==
    << [from |-> "CREATED", to |-> "FUNDED"],
       [from |-> "FUNDED", to |-> "PROVED"],
       [from |-> "PROVED", to |-> "ATTESTED"],
       [from |-> "ATTESTED", to |-> "SETTLED"] >>

\* Step 5: allTransitionsValid after the loop over the transitions
allTransitionsValid ==
    \A i \in 1..Len(transitions) :
        isValidTransition(transitions[i].from, transitions[i].to)

DemoInit == Init

\* Step 1: the key pair of agent A, then of B, then of C
DemoGenerateKeypair ==
    /\ \/ query.op = "none"
       \/ query.op = "demo" /\ query.step = 1 /\ Len(keypairs) < 3
    /\ \E k \in PublicKeys :
          query' = [op |-> "demo", step |-> 1,
                    keypairs |-> Append(keypairs, generateKeypair(k))]
    /\ UNCHANGED <<moduleVars, storeVars, last, tail>>

\* Step 2: jobSignature
DemoSignJob ==
    /\ query.op = "demo" /\ query.step = 1 /\ Len(keypairs) = 3
    /\ query' = [op |-> "demo", step |-> 2, keypairs |-> keypairs,
                 jobSignature |-> sign(canonicalBytes(jobPayload),
                                       agentA.secretKey),
                 events |-> <<>>, previousHash |-> GenesisHash]
    /\ UNCHANGED <<moduleVars, storeVars, last, tail>>

\* Step 3, Event 1 to Event 4: events.push({ id, type, actor, payload,
\* previousHash, hash, signature }), and previousHash = eventNHash after
\* each of the first three
DemoPush ==
    /\ query.op = "demo" /\ query.step \in {2, 3}
    /\ Len(query.events) < Len(DemoOrder)
    /\ \E now \in Times :
          LET id == Len(query.events) + 1
              type == DemoOrder[id]
              payload == eventPayload(type, now)
              hash == hashCanonical(payload)
          IN  query' = [query EXCEPT
                  !.step = 3,
                  !.events = Append(@,
                      [id |-> id, type |-> type,
                       actor |-> valueOf(Field(payload, "actor")),
                       payload |-> payload,
                       previousHash |-> query.previousHash,
                       hash |-> hash,
                       signature |-> sign(canonicalBytes(payload),
                                          demoAgent(type).secretKey)]),
                  !.previousHash = IF id < Len(DemoOrder) THEN hash ELSE @]
    /\ UNCHANGED <<moduleVars, storeVars, last, tail>>

\* Step 4: every event's signature is verified
DemoVerifySignatures ==
    /\ query.op = "demo" /\ query.step = 3
    /\ Len(query.events) = Len(DemoOrder)
    /\ query' = [op |-> "demo", step |-> 4, keypairs |-> keypairs,
                 events |-> query.events,
                 allValid |-> allValid(query.events)]
    /\ UNCHANGED <<moduleVars, storeVars, last, tail>>

\* Step 5: the state machine is asked about each of transitions
DemoCheckTransitions ==
    /\ query.op = "demo" /\ query.step = 4
    /\ query' = [op |-> "demo", step |-> 5, keypairs |-> keypairs,
                 events |-> query.events, allValid |-> query.allValid,
                 allTransitionsValid |-> allTransitionsValid]
    /\ UNCHANGED <<moduleVars, storeVars, last, tail>>

DemoNext ==
    \/ DemoGenerateKeypair
    \/ DemoSignJob
    \/ DemoPush
    \/ DemoVerifySignatures
    \/ DemoCheckTransitions

DemoSpec == DemoInit /\ [][DemoNext]_vars

(***************************************************************************)
(* Properties.                                                             *)
(***************************************************************************)
chainOf(j) == getEventLogEntriesByJobId(store, j)

\* the hash of a stored event: hash.ts chainHash over its previousHash and
\* its canonical payload
eventHash(e) == chainHash(e.previousHash, Str(e.payload))

JobRoutes == {"/jobs/:id/fund", "/jobs/:id/proof", "/jobs/:id/attest"}

\* the signature string is the text of a signature that the key pair of
\* the public key made over the bytes
SignedBy(signature, bytes, publicKey) ==
    /\ {"by", "over"} \subseteq DOMAIN signature
    /\ signature.by = keyBytes(publicKey)
    /\ signature.over = bytes

\* the node runs: it has its Store; after SIGTERM it has it until the
\* close callback has run
Running == db = "Store"

\* C1: in every job's chain, each event after the first carries as its
\* previousHash the hash of the event before it.
C1_ChainLinked ==
    \A j \in DOMAIN jobs :
        \A i \in 2..Len(chainOf(j)) :
            chainOf(j)[i].previousHash = eventHash(chainOf(j)[i - 1])

\* C2: of the appends made on the same tail of a job at most one is
\* committed: no two events of one job carry the same previousHash.
C2_AtMostOneWinner ==
    \A j \in 1..MaxStoreJobs :
        \A a \in 1..Len(chainOf(j)) : \A b \in 1..Len(chainOf(j)) :
            a # b => chainOf(j)[a].previousHash # chainOf(j)[b].previousHash

\* the distinct witnesses whose attestations the first n events of a chain
\* hold
witnessesIn(chain, n) ==
    { chain[i].actor :
        i \in { m \in 1..n : chain[m].eventType = "JOB_ATTESTED" } }

\* the state the first n events of a chain imply, replayed through the
\* state machine for a job that requires the attestations of required
\* distinct witnesses ("NONE" before JOB_CREATED, "INVALID" for a chain the
\* machine does not admit): an attestation of a PROVED job leaves it PROVED
\* until the quorum is met
RECURSIVE replay(_, _, _)
replay(chain, n, required) ==
    IF n = 0 THEN "NONE"
    ELSE LET before == replay(chain, n - 1, required)
             type == chain[n].eventType
             to == CASE type = "JOB_FUNDED" -> "FUNDED"
                     [] type = "JOB_PROVED" -> "PROVED"
                     [] type = "JOB_ATTESTED" -> "ATTESTED"
                     [] type = "JOB_SETTLED" -> "SETTLED"
                     [] OTHER -> "CREATED"
         IN  IF type = "JOB_CREATED"
             THEN IF before = "NONE" THEN "CREATED" ELSE "INVALID"
             ELSE IF before \notin JobStates THEN "INVALID"
             ELSE IF ~isValidTransition(before, to) THEN "INVALID"
             ELSE IF /\ type = "JOB_ATTESTED"
                     /\ Cardinality(witnessesIn(chain, n)) < required
             THEN before
             ELSE to

C4_OnlyValidTransitions ==
    [][/\ \A j \in DOMAIN jobs :
            jobs'[j].state # jobs[j].state =>
                isValidTransition(jobs[j].state, jobs'[j].state)
       /\ (/\ last'.route \in JobRoutes
           /\ last'.job \in DOMAIN jobs
           /\ ~isValidTransition(jobs[last'.job].state,
                                 EdgeOf(last'.route).to))
            => /\ last'.status \in {400, 401}
               /\ jobs' = jobs
               /\ eventLog' = eventLog]_vars

\* the job's client asked to fund a job that is PROVED, and was refused
C4_Witness ==
    /\ last.route = "/jobs/:id/fund"
    /\ last.status = 400
    /\ last.error = "Invalid transition"
    /\ last.body.signerId = jobs[last.job].clientId
    /\ jobs[last.job].state = "PROVED"

HappyPath ==
    { <<"CREATED", "FUNDED">>, <<"FUNDED", "PROVED">>,
      <<"PROVED", "ATTESTED">>, <<"ATTESTED", "SETTLED">> }

\* C5: isValidTransition(from, to) is true for exactly the four pairs
\* (CREATED,FUNDED), (FUNDED,PROVED), (PROVED,ATTESTED), (ATTESTED,SETTLED).
C5_ExactlyFourEdges ==
    query.op = "isValidTransition" =>
        (query.result <=> <<query.from, query.to>> \in HappyPath)

C5_Witness ==
    /\ query.op = "isValidTransition"
    /\ query.from = "PROVED"
    /\ query.to = "ATTESTED"
    /\ query.result = TRUE

C9_HandlerBehindSignature ==
    (last.next /\ last.route \in JobRoutes \cup {"/offers", "/jobs"}) =>
        /\ last.body.signerId \in DOMAIN agents
        /\ SignedBy(last.body.signature, canonicalize(last.body.payload),
                    agents[last.body.signerId].publicKey)

\* a registered agent's signed offer reached the handler and was published
C9_Witness ==
    /\ last.next
    /\ last.route = "/offers"
    /\ last.status = 201
    /\ last.body.signerId \in DOMAIN agents

\* C10: POST /agents creates an agent record only if the request's signature
\* is the signature of the public key embedded in the payload over the
\* canonicalized registration payload.
C10_RegistrationSelfSigned ==
    [][\A d \in DOMAIN agents' \ DOMAIN agents :
         /\ last'.route = "/agents"
         /\ valueOf(Field(last'.body.payload, "publicKey")) =
              agents'[d].publicKey
         /\ SignedBy(last'.body.signature,
                     canonicalize(last'.body.payload),
                     agents'[d].publicKey)]_vars

C10_Witness ==
    /\ last.route = "/agents"
    /\ last.status = 201
    /\ last.body.payload.v[1][1] = "publicKey"
    /\ last.body.signerId \in DOMAIN agents

\* every registration body the clients of the model send
AgentBodies ==
    UNION { SignedBodies(p) : p \in AgentPayloads }
      \cup UNION { ForgedBodies(p) : p \in PlainAgentPayloads }

\* a registration body that names a public key
NamesKey(b) == "payload" \in DOMAIN b /\ Has(b.payload, "publicKey")

\* a registration body whose claimed identifier is not the one derived
\* from its public key (a body that claims none included)
ClaimsOtherId(b) ==
    /\ NamesKey(b)
    /\ \/ "signerId" \notin DOMAIN b
       \/ b.signerId # deriveDid(valueOf(Field(b.payload, "publicKey")))

\* C11: in every state the node reaches, a registration whose signerId
\* differs from the identifier derived from the payload's public key is
\* rejected and leaves the store as it was; every agent record's did is
\* the identifier derived from its public key.
C11_MismatchedIdRejected ==
    /\ Running => \A b \in AgentBodies : \A now \in Times :
          ClaimsOtherId(b) =>
              /\ postAgents(store, b, now).status \in {400, 401}
              /\ postAgents(store, b, now).store = store
    /\ \A d \in DOMAIN agents : d = deriveDid(agents[d].publicKey)

C11_Witness ==
    /\ last.route = "/agents"
    /\ last.status = 400
    /\ last.error = "Invalid signerId"
    /\ agents # EmptyMap

\* a registration body that is well formed, signed by the key it names and
\* claims the identifier derived from it
SelfSigned(b) ==
    /\ NamesKey(b)
    /\ Has(b.payload, "name")
    /\ {"signature", "signerId"} \subseteq DOMAIN b
    /\ registrationIsValid(b)
    /\ b.signerId = deriveDid(valueOf(Field(b.payload, "publicKey")))

\* the self-signed registrations among the bodies the clients send
SelfSignedBodies == { b \in AgentBodies : SelfSigned(b) }

Registered(b) ==
    \E d \in DOMAIN agents :
        agents[d].publicKey = valueOf(Field(b.payload, "publicKey"))

\* C12 as stated: a registration with an already registered public key is
\* answered 409 whatever identifier it claims.
C12_Always409 ==
    Running => \A b \in AgentBodies : \A now \in Times :
        (NamesKey(b) /\ "signature" \in DOMAIN b /\ Has(b.payload, "name")
           /\ registrationIsValid(b) /\ Registered(b))
          => postAgents(store, b, now).status = 409

\* C12, amended: no two agent records share a public key; a registration
\* with an already registered public key is rejected and leaves the
\* registry unchanged; when it is well formed and validly signed, the
\* answer is 409 if it claims the identifier derived from that key and 400
\* (Invalid signerId) if it claims any other identifier.
C12_OneRecordPerKey ==
    /\ \A d1 \in DOMAIN agents : \A d2 \in DOMAIN agents :
          agents[d1].publicKey = agents[d2].publicKey => d1 = d2
    /\ Running => \A b \in AgentBodies : \A now \in Times :
          (NamesKey(b) /\ Registered(b)) =>
              LET out == postAgents(store, b, now)
              IN  /\ out.status # 201
                  /\ out.store = store
                  /\ (~noSignature(b) /\ Has(b.payload, "name")
                        /\ registrationIsValid(b)) =>
                       IF ClaimsOtherId(b)
                       THEN out.status = 400 /\ out.error = "Invalid signerId"
                       ELSE out.status = 409

\* with both identifiers taken, a registration of a registered key was
\* answered 409
C12_Witness ==
    /\ last.route = "/agents"
    /\ last.status = 409
    /\ Cardinality(DOMAIN agents) = 2

\* C13: an agent record, once in the registry, stays there unchanged
\* through every later operation; a registration with another public key
\* that derives a registered identifier fails.
C13_BindingIsPermanent ==
    [][/\ \A d \in DOMAIN agents :
            /\ d \in DOMAIN agents'
            /\ agents'[d] = agents[d]
       /\ \A b \in SelfSignedBodies : \A now \in Times :
            (~Registered(b) /\ b.signerId \in DOMAIN agents)
              => /\ postAgents(store, b, now).status = 500
                 /\ postAgents(store, b, now).store = store]_vars

C13_Witness ==
    /\ last.route = "/agents"
    /\ last.status = 500
    /\ \E d \in DOMAIN agents :
         agents[d].publicKey = [pre |-> 2, suf |-> 1, pad |-> "="]

\* C14: every party derives the same identifier from a public key: the
\* node's derivation, the client's deriveDid and the core library's
\* deriveAgentId agree on every key.
C14_SameIdentifierEverywhere ==
    (query.op = "derive"
       /\ {"node", "client", "core"} \subseteq DOMAIN query) =>
        /\ query.node[1] = query.client[1]
        /\ query.client[1] = query.core[1]

\* C15: two distinct public keys never derive the same identifier, by the
\* node's derivation or by the client's.
C15_NoCollision ==
    (query.op = "derive" /\ query.a # query.b) =>
        /\ "node" \in DOMAIN query => query.node[1] # query.node[2]
        /\ "client" \in DOMAIN query => query.client[1] # query.client[2]

\* seq extends prefix: prefix is what seq begins with
Extends(seq, prefix) ==
    /\ Len(seq) >= Len(prefix)
    /\ SubSeq(seq, 1, Len(prefix)) = prefix

\* C16: the event log is append-only: every store operation leaves each
\* entry already in the log at its position with all its fields, so the
\* log read after the operation (whole, or of one job) extends the log
\* read before it.
C16_LogAppendOnly ==
    [][(db = "Store" /\ db' = "Store") =>
         /\ Extends(getAllEventLogEntries(store'),
                    getAllEventLogEntries(store))
         /\ \A j \in 1..MaxStoreJobs :
              Extends(getEventLogEntriesByJobId(store', j),
                      getEventLogEntriesByJobId(store, j))]_vars

C16_Witness ==
    /\ Len(eventLog) = MaxStoreLog
    /\ \E j \in DOMAIN jobs :
         /\ jobs[j].state = "FUNDED"
         /\ Len(chainOf(j)) >= 2
         /\ Len(chainOf(j)) < Len(eventLog)

\* link i of a chain of events does not verify: verifyChain rejects the
\* event's hash, or its previousHash is not the hash of the event before
\* it (the genesis hash for the first)
linkFails(events, i) ==
    \/ ~verifyChain(events[i].previousHash, events[i].payload,
                    events[i].hash)
    \/ events[i].previousHash #
         (IF i = 1 THEN genesis ELSE events[i - 1].hash)

\* C17: every link of a chain folded with chainHash from the genesis hash
\* verifies; once one field (payload, hash or previousHash) of event k is
\* changed, some link at an index >= k fails, and none before k does.
C17_TamperDetected ==
    query.op = "chain" =>
        IF query.tampered = 0
        THEN \A i \in 1..Len(query.events) : ~linkFails(query.events, i)
        ELSE /\ \E i \in query.tampered..Len(query.events) :
                  linkFails(query.events, i)
             /\ \A i \in 1..(query.tampered - 1) :
                  ~linkFails(query.events, i)

C17_Witness ==
    /\ query.op = "chain"
    /\ Len(query.events) = MaxChain
    /\ query.tampered = 2
    /\ query.events[2].payload # query.events[1].payload
    /\ ~verifyChain(query.events[2].previousHash, query.events[2].payload,
                    query.events[2].hash)
    /\ query.events[3].previousHash = query.events[2].hash
    /\ ~linkFails(query.events, 1)

\* the three checks of a replay, on the log of the demo script: the hash
\* links (verifyChain accepts each event's hash, and each previousHash is
\* the hash before it, sha256('GENESIS') for the first), the signatures
\* (each against the key of the agent that is the event's actor), and the
\* event types in order through the state machine
linksIntact(events) ==
    \A i \in 1..Len(events) :
        /\ verifyChain(events[i].previousHash, events[i].payload,
                       events[i].hash)
        /\ events[i].previousHash =
             (IF i = 1 THEN GenesisHash ELSE events[i - 1].hash)

signaturesVerify(events) ==
    \A i \in 1..Len(events) :
        verify(canonicalBytes(events[i].payload), events[i].signature,
               demoAgent(events[i].type).publicKey)

\* the state a sequence of event types leads to ("NONE" before
\* JOB_CREATED, "INVALID" once a type is not admissible)
RECURSIVE stateAfter(_, _)
stateAfter(events, n) ==
    IF n = 0 THEN "NONE"
    ELSE LET before == stateAfter(events, n - 1)
             type == events[n].type
             to == CASE type = "JOB_FUNDED" -> "FUNDED"
                     [] type = "JOB_PROVED" -> "PROVED"
                     [] type = "JOB_ATTESTED" -> "ATTESTED"
                     [] type = "JOB_SETTLED" -> "SETTLED"
                     [] OTHER -> "CREATED"
         IN  IF type = "JOB_CREATED"
             THEN IF before = "NONE" THEN "CREATED" ELSE "INVALID"
             ELSE IF before \notin JobStates THEN "INVALID"
             ELSE IF ~isValidTransition(before, to) THEN "INVALID"
             ELSE to

typesAdmissible(events) == stateAfter(events, Len(events)) # "INVALID"

\* C18: the verification reports a log valid exactly when its hash links
\* are intact, every signature verifies against its actor's key and every
\* transition of the sequence is admissible.  The script's report is what
\* it prints after Step 4 and Step 5.
C18_ValidIffAllChecks ==
    (query.op = "demo" /\ query.step = 5) =>
        ((query.allValid /\ query.allTransitionsValid) <=>
            /\ linksIntact(query.events)
            /\ signaturesVerify(query.events)
            /\ typesAdmissible(query.events))

\* C19: a job that reaches ATTESTED is settled by the system: it reaches
\* SETTLED, with no agent request needed for it.
C19_AttestedLeadsToSettled ==
    \A j \in 1..MaxJobs :
        (j \in DOMAIN jobs /\ jobs[j].state = "ATTESTED")
          ~> (j \in DOMAIN jobs /\ jobs[j].state = "SETTLED")

EventOrder ==
    <<"JOB_CREATED", "JOB_FUNDED", "JOB_PROVED", "JOB_ATTESTED",
      "JOB_SETTLED">>

typesOf(chain) == [i \in 1..Len(chain) |-> chain[i].eventType]

\* C20: the event types of the chain of a job with requiredAttestations = 1
\* are, in append order, a prefix of JOB_CREATED, JOB_FUNDED, JOB_PROVED,
\* JOB_ATTESTED, JOB_SETTLED (so none occurs twice); an accepted job
\* creation or transition appends exactly one event, to its job's chain,
\* and every other request appends none.
C20_OneEventPerTransition ==
    [][/\ \A j \in DOMAIN jobs' :
            jobs'[j].requiredAttestations = 1 =>
                LET chain == getEventLogEntriesByJobId(store', j)
                IN  /\ Len(chain) <= Len(EventOrder)
                    /\ typesOf(chain) = SubSeq(EventOrder, 1, Len(chain))
       /\ IF \/ /\ last'.route \in JobRoutes
                /\ last'.status = 200
             \/ last'.route = "/jobs" /\ last'.status = 201
          THEN /\ Len(eventLog') = Len(eventLog) + 1
               /\ SubSeq(eventLog', 1, Len(eventLog)) = eventLog
               /\ eventLog'[Len(eventLog')].jobId =
                    (IF last'.route = "/jobs"
                     THEN Cardinality(DOMAIN jobs') ELSE last'.job)
          ELSE eventLog' = eventLog]_vars

\* a job that requires one attestation has its four events, and a second
\* attestation was refused and appended nothing
C20_Witness ==
    /\ last.route = "/jobs/:id/attest"
    /\ last.next
    /\ last.status = 400
    /\ last.job \in DOMAIN jobs
    /\ jobs[last.job].requiredAttestations = 1
    /\ jobs[last.job].state = "ATTESTED"
    /\ typesOf(chainOf(last.job)) = SubSeq(EventOrder, 1, 4)

(***************************************************************************)
(* SignSpec: the core library's sign and verify, called on their own.  A   *)
(* message is signed with one key pair; verify is then called with that    *)
(* message, signature and public key, or with any of them replaced: by     *)
(* another message, signature or key, or by another string of the same     *)
(* signature or key.                                                       *)
(***************************************************************************)
SignMessages ==
    { canonicalBytes(p) : p \in { Obj(<<>>),
                                  Obj(<< <<"name", Str("a")>> >>),
                                  Obj(<< <<"name", Str("b")>> >>) } }

\* the public key strings of the key pairs, and the string of the first
\* without its padding
SignKeys ==
    Keys \cup { [pre |-> 3, suf |-> 1, pad |-> "="] }
      \cup { [pre |-> 1, suf |-> 1, pad |-> ""] }

\* every signature string verify can be handed: the signatures the key
\* pairs make, each also with the order of the group added to its scalar
\* and also as a base64 text without padding, and one that does not decode
\* to a signature
SignSignatures ==
    LET made == { sign(m, secretKeyOf(k)) : m \in SignMessages, k \in Keys }
    IN  made \cup { [sig EXCEPT !.s = "S+L"] : sig \in made }
             \cup { [sig EXCEPT !.pad = ""] : sig \in made }
             \cup {MalformedSig, EmptySignature}

SignInit == Init

CallSign ==
    /\ \E m \in SignMessages, k \in Keys :
         query' = [op |-> "sign", message |-> m, publicKey |-> k,
                   signature |-> sign(m, secretKeyOf(k))]
    /\ UNCHANGED <<moduleVars, storeVars, last, tail>>

CallVerify ==
    /\ "op" \in DOMAIN query
    /\ query.op = "sign"
    /\ \E m \in SignMessages, sig \in SignSignatures, k \in SignKeys :
         query' = [op |-> "verify", signed |-> query, message |-> m,
                   signature |-> sig, publicKey |-> k,
                   result |-> verify(m, sig, k)]
    /\ UNCHANGED <<moduleVars, storeVars, last, tail>>

SignNext ==
    \/ CallSign
    \/ CallVerify

SignSpec == SignInit /\ [][SignNext]_vars

\* C21: verify accepts a signature with the message it was made over and
\* the public key of the pair that made it; with that signature it returns
\* false for any other message or public key, and with that message and
\* public key it returns false for any other signature.
C21_VerifyIffSame ==
    ("op" \in DOMAIN query /\ query.op = "verify") =>
        /\ query.signature = query.signed.signature =>
             (query.result <=>
                /\ query.message = query.signed.message
                /\ query.publicKey = query.signed.publicKey)
        /\ (/\ query.message = query.signed.message
            /\ query.publicKey = query.signed.publicKey) =>
             (query.result <=> query.signature = query.signed.signature)

(***************************************************************************)
(* Client and node together.                                               *)
(***************************************************************************)
\* the routes behind the signature middleware
SignedRoutes ==
    { "/offers", "/jobs", "/jobs/:id/fund", "/jobs/:id/proof",
      "/jobs/:id/attest" }

\* every payload the clients of the model send to these routes
ClientPayloads ==
    OfferPayloads \cup JobPayloads
      \cup UNION { TransitionPayloads(r) : r \in JobRoutes }

\* C22: for every registered agent and every payload, the body the client
\* builds with sendSignedRequest passes the node's verifySignature as that
\* agent, and the same body with its payload changed after signing is
\* answered 401; the signature is over canonicalize(payload) alone, and the
\* body is payload, signature and signerId side by side.
C22_ClientEnvelopeAccepted ==
    Running =>
    \A d \in DOMAIN agents : \A p \in ClientPayloads :
        LET k == getAgent(store, d).publicKey
            body == sendSignedRequest(p, k, secretKeyOf(k))
            changed == [body EXCEPT !.payload = Tampered(p)]
        IN  /\ DOMAIN body = {"payload", "signature", "signerId"}
            /\ body.payload = p
            /\ body.signature = sign(canonicalize(p), secretKeyOf(k))
            /\ \A r \in SignedRoutes :
                 LET out == verifySignature(store, "POST", r, body)
                     bad == verifySignature(store, "POST", r, changed)
                 IN  /\ out.next
                     /\ out.verifiedAgent = d
                     /\ ~bad.next
                     /\ bad.status = 401
                     /\ bad.error = "Invalid signature"

\* two agents are registered and the node has just accepted a signed offer
\* whose payload was written with its keys out of order
C22_Witness ==
    /\ Cardinality(DOMAIN agents) = 2
    /\ last.route = "/offers"
    /\ last.status = 201
    /\ last.body.payload.v # sortKeys(last.body.payload.v)
    /\ LET k == getAgent(store, last.body.signerId).publicKey
       IN  last.body = sendSignedRequest(last.body.payload, k,
                                         secretKeyOf(k))

\* C26: validateTransition(from, to) returns valid: true and no reason
\* exactly when isValidTransition(from, to); otherwise it returns valid:
\* false with a reason that names from, to and the states allowed next from
\* `from`, and says that none are allowed exactly when `from` is terminal.
C26_ReasonExplainsRefusal ==
    query.op = "validateTransition" =>
        LET r == query.result
        IN  /\ r.valid <=> isValidTransition(query.from, query.to)
            /\ r.valid => DOMAIN r = {"valid"}
            /\ ~r.valid =>
                 /\ DOMAIN r = {"valid", "reason"}
                 /\ r.reason.from = query.from
                 /\ r.reason.to = query.to
                 /\ r.reason.allowed = VALID_TRANSITIONS[query.from]
                 /\ r.reason.none <=> isTerminal(query.from)

\* a transition out of the terminal state was refused
C26_Witness ==
    /\ query.op = "validateTransition"
    /\ query.from = "SETTLED"
    /\ query.to = "CREATED"
    /\ ~query.result.valid
    /\ query.result.reason.none

\* bodies whose signature does not decode to an Ed25519 signature
MalformedBodies ==
    { [payload |-> p, signature |-> MalformedSig, signerId |-> d] :
        p \in ClientPayloads, d \in DIDs }

\* C25: a request whose signature is malformed is rejected with an outcome
\* of its own, which is neither the outcome of a well-formed signature that
\* does not verify nor the outcome of the registry lookup, and which is
\* the same whatever the registry holds.
C25_MalformedIsInvalidEncoding ==
    \A b \in MalformedBodies : \A r \in SignedRoutes :
        LET out == verifySignature(store, "POST", r, b)
        IN  /\ ~out.next
            /\ out.error # "Invalid signature"
            /\ out.error # "Agent not found"
            /\ out = verifySignature(EmptyStore, "POST", r, b)

\* the position in the log of each entry of a job, in log order
RECURSIVE positionsOf(_, _, _)
positionsOf(log, jobId, i) ==
    IF i > Len(log) THEN <<>>
    ELSE IF log[i].jobId = jobId
         THEN <<i>> \o positionsOf(log, jobId, i + 1)
         ELSE positionsOf(log, jobId, i + 1)

\* C27: a read of a job's events returns every event of that job and only
\* those, in append order, and changes nothing in the store; a read made
\* when no entry was appended since an earlier read of the same job returns
\* the sequence the earlier read returned.
C27_ReadIsExactAndPure ==
    [][(query' # query /\ query'.op = "getEventLogEntriesByJobId") =>
         LET j == query'.job
             r == query'.result
         IN  /\ store' = store
             /\ \A i \in 1..Len(r) : r[i].jobId = j
             /\ \A i \in 1..(Len(r) - 1) : r[i].id < r[i + 1].id
             /\ { r[i].id : i \in 1..Len(r) } =
                  { eventLog[n].id :
                      n \in { m \in 1..Len(eventLog) : eventLog[m].jobId = j } }
             /\ Len(r) = Len(positionsOf(eventLog, j, 1))
             /\ \A i \in 1..Len(r) :
                  r[i] = eventLog[positionsOf(eventLog, j, 1)[i]]
             /\ (/\ query.op = "getEventLogEntriesByJobId"
                 /\ query.job = j
                 /\ query.log = query'.log) => r = query.result]_vars

\* a job's events were read from a log that also holds another job's
\* events, between which they lie
C27_Witness ==
    /\ query.op = "getEventLogEntriesByJobId"
    /\ Len(query.result) = 2
    /\ Len(eventLog) = 3
    /\ Len(query.log) = 3
    /\ eventLog[2].jobId # query.job

\* C28: getLastEventHashForJob(jobId) is undefined when the job has no
\* events, and otherwise is the hash of the job's most recently appended
\* event.
C28_TailIsHashOfLastEvent ==
    \A j \in 1..MaxStoreJobs :
        /\ getLastEventHashForJob(store, j) = Undefined
             <=> chainOf(j) = <<>>
        /\ chainOf(j) # <<>> =>
             getLastEventHashForJob(store, j) =
                 eventHash(chainOf(j)[Len(chainOf(j))])

\* the events that have the previousHash and the payload of e and a header
\* of their own
HeaderVariants(e) ==
    { [e EXCEPT !.eventType = t, !.actor = a, !.jobId = j, !.createdAt = c] :
        t \in {"JOB_FUNDED", "JOB_PROVED"}, a \in Callers,
        j \in 1..MaxStoreJobs, c \in {0, 1} }

\* C29: two events with the same previousHash and the same payload that
\* differ in eventType, actor, jobId or timestamp have different hashes.
C29_HashCommitsToHeader ==
    \A i \in 1..Len(eventLog) :
        \A e \in HeaderVariants(eventLog[i]) :
            e # eventLog[i] => eventHash(e) # eventHash(eventLog[i])

(***************************************************************************)
(* CanonSpec: canonicalize and parseCanonical on nested values.            *)
(***************************************************************************)
\* JSON.parse.  A parse is the value read and the place of the token after
\* it, or a failure.
parseFails == [ok |-> FALSE, value |-> SyntaxError, next |-> 0]

parsed(value, next) == [ok |-> TRUE, value |-> value, next |-> next]

\* the object with the member: a key the object has keeps its place and
\* takes the new value
setMember(pairs, key, value) ==
    IF \E i \in 1..Len(pairs) : pairs[i][1] = key
    THEN [i \in 1..Len(pairs) |->
            IF pairs[i][1] = key THEN <<key, value>> ELSE pairs[i]]
    ELSE Append(pairs, <<key, value>>)

RECURSIVE parseValue(_, _), parseElements(_, _, _), parseMembers(_, _, _)
parseValue(toks, i) ==
    IF i > Len(toks) THEN parseFails
    ELSE IF toks[i].t = "number text"
    THEN parsed(Num(toks[i].v), i + 1)
    ELSE IF toks[i].t = "quoted text"
    THEN parsed([t |-> "string", v |-> toks[i].v], i + 1)
    ELSE IF toks[i].t = "literal"
    THEN CASE toks[i].v = "null" -> parsed(Null, i + 1)
           [] toks[i].v = "true" -> parsed(Bool(TRUE), i + 1)
           [] toks[i].v = "false" -> parsed(Bool(FALSE), i + 1)
           [] OTHER -> parseFails
    ELSE IF toks[i] = Punct("[")
    THEN IF i + 1 <= Len(toks) /\ toks[i + 1] = Punct("]")
         THEN parsed(Arr(<<>>), i + 2)
         ELSE parseElements(toks, i + 1, <<>>)
    ELSE IF toks[i] = Punct("{")
    THEN IF i + 1 <= Len(toks) /\ toks[i + 1] = Punct("}")
         THEN parsed(Obj(<<>>), i + 2)
         ELSE parseMembers(toks, i + 1, <<>>)
    ELSE parseFails

parseElements(toks, i, acc) ==
    LET r == parseValue(toks, i)
    IN  IF ~r.ok \/ r.next > Len(toks) THEN parseFails
        ELSE IF toks[r.next] = Punct(",")
        THEN parseElements(toks, r.next + 1, Append(acc, r.value))
        ELSE IF toks[r.next] = Punct("]")
        THEN parsed(Arr(Append(acc, r.value)), r.next + 1)
        ELSE parseFails

parseMembers(toks, i, acc) ==
    IF i + 1 > Len(toks) THEN parseFails
    ELSE IF toks[i].t # "quoted text" \/ toks[i + 1] # Punct(":")
    THEN parseFails
    ELSE LET r == parseValue(toks, i + 2)
             key == IF Len(toks[i].v) = 0 THEN "" ELSE toks[i].v[1]
             members == setMember(acc, key, r.value)
         IN  IF ~r.ok \/ r.next > Len(toks) THEN parseFails
             ELSE IF toks[r.next] = Punct(",")
             THEN parseMembers(toks, r.next + 1, members)
             ELSE IF toks[r.next] = Punct("}")
             THEN parsed(Obj(members), r.next + 1)
             ELSE parseFails

\* canonical.ts parseCanonical; a text JSON.parse throws on gives SyntaxError
parseCanonical(json) ==
    LET r == parseValue(json, 1)
    IN  IF r.ok /\ r.next = Len(json) + 1 THEN r.value ELSE SyntaxError

\* the values canonicalize is called with
CanonKeys == {"amount", "U+00E9", "U+0065 U+0301"}

JSONLeaves == {Num(1), Str("x"), Null, Bool(TRUE), Bool(FALSE)}

Leaves == JSONLeaves \cup {NaN, Undefined}

\* the sequences of m items of S of which at most k are arrays or objects
RECURSIVE ItemsOver(_, _, _)
ItemsOver(S, m, k) ==
    IF m = 0 THEN {<<>>}
    ELSE { Append(s, x) : s \in ItemsOver(S, m - 1, k),
                          x \in { y \in S : ~isContainer(y) } }
           \cup
         (IF k = 0 THEN {}
          ELSE { Append(s, x) : s \in ItemsOver(S, m - 1, k - 1),
                                x \in { y \in S : isContainer(y) } })

\* the same of members, each key once
RECURSIVE MembersOver(_, _, _)
MembersOver(S, m, k) ==
    IF m = 0 THEN {<<>>}
    ELSE LET free(s) == CanonKeys \ { s[i][1] : i \in 1..Len(s) }
         IN  UNION { { Append(s, <<key, x>>) :
                         key \in free(s),
                         x \in { y \in S : ~isContainer(y) } } :
                     s \in MembersOver(S, m - 1, k) }
               \cup
             (IF k = 0 THEN {}
              ELSE UNION { { Append(s, <<key, x>>) :
                               key \in free(s),
                               x \in { y \in S : isContainer(y) } } :
                           s \in MembersOver(S, m - 1, k - 1) })

ContainersOver(S) ==
    { Arr(q) : q \in UNION { ItemsOver(S, m, MaxNested) : m \in 0..MaxWidth } }
      \cup
    { Obj(q) : q \in UNION { MembersOver(S, m, MaxNested) :
                               m \in 0..MaxWidth } }

\* the values nested no deeper than d
RECURSIVE Values(_)
Values(d) ==
    IF d = 0 THEN Leaves
    ELSE LET inner == Values(d - 1)
         IN  inner \cup ContainersOver(inner)

\* the values that have the keys and values of x, the keys of every object
\* inserted in any order
Perms(n) == { f \in [1..n -> 1..n] : \A i, j \in 1..n : f[i] = f[j] => i = j }

RECURSIVE Reorderings(_)
Reorderings(x) ==
    IF ~isContainer(x) THEN {x}
    ELSE LET n == Len(x.v)
             child(i) == IF x.t = "array" THEN x.v[i] ELSE x.v[i][2]
             choices == { c \in [1..n -> UNION { Reorderings(child(i)) :
                                                   i \in 1..n }] :
                            \A i \in 1..n : c[i] \in Reorderings(child(i)) }
         IN  IF x.t = "array"
             THEN { Arr([i \in 1..n |-> c[i]]) : c \in choices }
             ELSE { Obj([i \in 1..n |-> <<x.v[f[i]][1], c[f[i]]>>]) :
                      f \in Perms(n), c \in choices }

CanonInit == Init

CallCanonicalize ==
    /\ query.op = "none"
    /\ \E x \in Values(MaxDepth) : \E y \in Reorderings(x) :
         query' = [op |-> "canonicalize", x |-> x, y |-> y,
                   result |-> canonicalize(x),
                   other |-> canonicalize(y)]
    /\ UNCHANGED <<moduleVars, storeVars, last, tail>>

CallParseCanonical ==
    /\ query.op = "canonicalize"
    /\ query' = [op |-> "parseCanonical", x |-> query.x,
                 json |-> query.result,
                 result |-> parseCanonical(query.result)]
    /\ UNCHANGED <<moduleVars, storeVars, last, tail>>

CanonNext ==
    \/ CallCanonicalize
    \/ CallParseCanonical

CanonSpec == CanonInit /\ [][CanonNext]_vars

\* a and b are the same value: the same type and content, arrays item by
\* item, objects key by key whatever the order of insertion
RECURSIVE sameValue(_, _)
sameValue(a, b) ==
    IF a.t # b.t THEN FALSE
    ELSE IF a.t = "array"
    THEN /\ Len(a.v) = Len(b.v)
         /\ \A i \in 1..Len(a.v) : sameValue(a.v[i], b.v[i])
    ELSE IF a.t = "object"
    THEN /\ Len(a.v) = Len(b.v)
         /\ \A i \in 1..Len(a.v) : \E j \in 1..Len(b.v) :
              /\ a.v[i][1] = b.v[j][1]
              /\ sameValue(a.v[i][2], b.v[j][2])
    ELSE a = b

\* x is made of JSON values alone: no undefined and no NaN at any level
RECURSIVE isJSON(_)
isJSON(x) ==
    IF x.t = "array" THEN \A i \in 1..Len(x.v) : isJSON(x.v[i])
    ELSE IF x.t = "object" THEN \A i \in 1..Len(x.v) : isJSON(x.v[i][2])
    ELSE x.t \in {"number", "string", "null", "boolean"}

\* C23: canonicalize returns the same text for two objects that have the
\* same keys and values and differ only in the order their keys were
\* inserted in, at any nesting level; and the text of an array of two JSON
\* values that have different texts changes when the two change places.
C23_InsertionOrderIrrelevant ==
    query.op = "canonicalize" =>
        /\ sameValue(query.x, query.y) => query.result = query.other
        /\ (/\ query.x.t = "array"
            /\ isJSON(query.x)
            /\ Len(query.x.v) = 2
            /\ canonicalize(query.x.v[1]) #
                 canonicalize(query.x.v[2])) =>
             canonicalize(Arr(<<query.x.v[2], query.x.v[1]>>)) #
                 query.result

\* C24 as stated: for every object x, parseCanonical(canonicalize(x)) is a
\* value equal to x.
C24_RoundTrip ==
    (query.op = "parseCanonical" /\ query.x.t = "object") =>
        sameValue(query.result, query.x)

\* C24: for every object x made of JSON values alone (no undefined and no
\* NaN at any level), parseCanonical(canonicalize(x)) is a value equal to
\* x.
C24_RoundTripOfJSON ==
    (query.op = "parseCanonical" /\ query.x.t = "object"
        /\ isJSON(query.x)) =>
        sameValue(query.result, query.x)

\* an object of JSON values with an object nested in it, whose keys were
\* inserted out of order at both levels, came back from the round trip
C24_Witness ==
    /\ query.op = "parseCanonical"
    /\ query.x.t = "object"
    /\ isJSON(query.x)
    /\ Len(query.x.v) = 2
    /\ query.x.v[1][2].t = "object"
    /\ Len(query.x.v[1][2].v) = 2
    /\ query.x.v[1][2].v[1][2].t = "number"
    /\ query.result # query.x
    /\ query.result.v[2][2] # query.x.v[1][2]
    /\ sameValue(query.result, query.x)

\* p and q have the same keys and values
sameObject(p, q) ==
    /\ Len(p.v) = Len(q.v)
    /\ { p.v[i] : i \in 1..Len(p.v) } = { q.v[i] : i \in 1..Len(q.v) }

\* C30: for every event of an untouched chain, verifyChain of its previous
\* hash and payload is true of a hash exactly when that hash is chainHash
\* of the two; it is false of the event's hash with another previous hash
\* or with a payload that is another object; and chainHash is the same for
\* a payload that differs from the event's in key order alone.
C30_VerifyChainIffChainHash ==
    (query.op = "chain" /\ query.tampered = 0) =>
        \A i \in 1..Len(query.events) :
            LET e == query.events[i]
            IN  /\ \A h \in OtherHashes :
                     verifyChain(e.previousHash, e.payload, h) <=>
                         h = chainHash(e.previousHash, e.payload)
                /\ \A h \in OtherHashes :
                     h # e.previousHash =>
                         ~verifyChain(h, e.payload, e.hash)
                /\ \A p \in ChainPayloads :
                     ~sameObject(p, e.payload) =>
                         ~verifyChain(e.previousHash, p, e.hash)
                /\ \A p \in ChainPayloads :
                     sameObject(p, e.payload) =>
                         chainHash(e.previousHash, p) =
                             chainHash(e.previousHash, e.payload)

\* C31: a step that changes the chain of one job leaves the chain of every
\* other job as it was, whatever the order in which the callers append.
C31_OtherChainsUntouched ==
    [][(db = "Store" /\ db' = "Store") =>
         \A a \in 1..MaxStoreJobs : \A b \in 1..MaxStoreJobs :
           (a # b /\ getEventLogEntriesByJobId(store', a) #
                       getEventLogEntriesByJobId(store, a))
             => getEventLogEntriesByJobId(store', b) =
                  getEventLogEntriesByJobId(store, b)]_vars

\* appends to two jobs were interleaved: job 1, job 2, job 1
C31_Witness ==
    /\ Len(eventLog) = 3
    /\ eventLog[1].jobId = 1
    /\ eventLog[2].jobId = 2
    /\ eventLog[3].jobId = 1
    /\ eventLog[1].actor # eventLog[2].actor

\* C36: the k-th entry of the log has id k, whatever job it belongs to, and
\* the counter is the number of entries; so ids are unique and increasing
\* over the log and over each job's chain.
C36_IdIsPosition ==
    /\ eventLogId = Len(eventLog)
    /\ \A k \in 1..Len(eventLog) : eventLog[k].id = k
    /\ \A j \in 1..MaxStoreJobs :
         \A i \in 1..(Len(chainOf(j)) - 1) :
             chainOf(j)[i].id < chainOf(j)[i + 1].id

\* a job's two events have ids 1 and 3: an append to another job came
\* between them
C36_Witness ==
    \E j \in 1..MaxStoreJobs :
        /\ Len(chainOf(j)) = 2
        /\ chainOf(j)[1].id = 1
        /\ chainOf(j)[2].id = 3

(***************************************************************************)
(* MapSpec: the Store's inserts and updateJobState called directly, with   *)
(* identifiers that exist and identifiers that do not.  last keeps the     *)
(* call and whether it threw.                                              *)
(***************************************************************************)
MapAgents ==
    { [did |-> deriveDid(k), publicKey |-> k, name |-> "agent",
       registeredAt |-> 0] : k \in Keys }

MapOffers ==
    { [id |-> i, capability |-> c] :
        i \in 1..MaxStoreJobs, c \in {"dns_audit", "other"} }

MapJobs ==
    { [id |-> j, state |-> st] :
        j \in 1..MaxStoreJobs, st \in {"CREATED", "FUNDED"} }

MapInit == Init

MapInsertAgent ==
    \E a \in MapAgents :
        /\ ~getDBThrows
        /\ SetStore(insertAgent(store, a))
        /\ last' = [op |-> "insertAgent", arg |-> a,
                    threw |-> insertAgentThrows(store, a)]
        /\ UNCHANGED <<moduleVars, tail, query>>

MapInsertOffer ==
    \E o \in MapOffers :
        /\ ~getDBThrows
        /\ SetStore(insertOffer(store, o))
        /\ last' = [op |-> "insertOffer", arg |-> o,
                    threw |-> insertOfferThrows(store, o)]
        /\ UNCHANGED <<moduleVars, tail, query>>

MapInsertJob ==
    \E j \in MapJobs :
        /\ ~getDBThrows
        /\ SetStore(insertJob(store, j))
        /\ last' = [op |-> "insertJob", arg |-> j,
                    threw |-> insertJobThrows(store, j)]
        /\ UNCHANGED <<moduleVars, tail, query>>

MapUpdateJobState ==
    \E j \in 1..MaxStoreJobs : \E st \in {"FUNDED", "PROVED"} :
        /\ ~getDBThrows
        /\ SetStore(updateJobState(store, j, st))
        /\ last' = [op |-> "updateJobState",
                    arg |-> [jobId |-> j, newState |-> st],
                    threw |-> updateJobStateThrows(store, j)]
        /\ UNCHANGED <<moduleVars, tail, query>>

MapNext ==
    \/ CloseDB
    \/ InitializeDB
    \/ MapInsertAgent
    \/ MapInsertOffer
    \/ MapInsertJob
    \/ MapUpdateJobState

MapSpec == MapInit /\ [][MapNext]_vars

\* C37: insertAgent, insertOffer and insertJob called with an identifier
\* that exists throw, and so does updateJobState called with a job that
\* does not; a call that throws leaves every map and the event log as they
\* were, the existing record included.
C37_FailedCallChangesNothing ==
    [][LET op == last'.op
           x == last'.arg
       IN  /\ (op = "insertAgent" /\ x.did \in DOMAIN agents) =>
                 last'.threw /\ store' = store
           /\ (op = "insertOffer" /\ x.id \in DOMAIN offers) =>
                 last'.threw /\ store' = store
           /\ (op = "insertJob" /\ x.id \in DOMAIN jobs) =>
                 last'.threw /\ store' = store
           /\ (op = "updateJobState" /\ x.jobId \notin DOMAIN jobs) =>
                 last'.threw /\ store' = store
           /\ last'.threw => store' = store]_vars

\* insertJob was called with the identifier of a job whose state had been
\* updated, threw, and the stored job is not the one it was called with
C37_Witness ==
    /\ "op" \in DOMAIN last
    /\ last.op = "insertJob"
    /\ last.threw
    /\ jobs[last.arg.id].state = "PROVED"
    /\ agents # EmptyMap
    /\ offers # EmptyMap

\* the request bodies of the model for a route behind the middleware
MutatingBodies ==
    UNION { SignedBodies(p) \cup ForgedBodies(p) : p \in OfferPayloads }

\* a body that lacks payload, signature or signerId: the field is not
\* there, or the signature or the signerId is the empty string
MissingField(b) ==
    \/ {"payload", "signature", "signerId"} \ DOMAIN b # {}
    \/ b.signature = EmptySignature
    \/ b.signerId = EmptySignerId

\* C32: behind the middleware, a request that lacks payload, signature or
\* signerId is answered 400; else one whose signerId is not registered is
\* answered 401 'Agent not found'; else one whose signature is not the
\* registered key's signature of the canonical payload is answered 401
\* 'Invalid signature'.  In each case the handler is not invoked, no
\* verifiedAgent is set and the store is unchanged.
C32_RejectedInOrder ==
    Running =>
    \A r \in SignedRoutes : \A b \in MutatingBodies :
        LET mw == verifySignature(store, "POST", r, b)
            out == serve(store, r, 1, b, 1, 0)
            rejected(status, error) ==
                /\ ~mw.next
                /\ mw.status = status
                /\ mw.error = error
        IN  /\ IF MissingField(b)
               THEN rejected(400, "Missing required signature fields")
               ELSE IF b.signerId \notin DOMAIN agents
               THEN rejected(401, "Agent not found")
               ELSE IF ~SignedBy(b.signature, canonicalize(b.payload),
                                 agents[b.signerId].publicKey)
               THEN rejected(401, "Invalid signature")
               ELSE mw.next /\ mw.verifiedAgent = b.signerId
            /\ ~mw.next =>
                 /\ "verifiedAgent" \notin DOMAIN mw
                 /\ out = Reply(mw.status, mw.error, store)
                            @@ [next |-> FALSE]
                 /\ out.store = store

\* with an agent registered, the node has just answered 401 'Invalid
\* signature' to a request for a job route and kept its store
C32_Witness ==
    /\ last.route = "/jobs/:id/fund"
    /\ last.status = 401
    /\ last.error = "Invalid signature"
    /\ ~last.next
    /\ agents # EmptyMap
    /\ jobs # EmptyMap

\* the four checks of a registration, each by itself
WellFormed(b) ==
    /\ {"payload", "signature"} \subseteq DOMAIN b
    /\ b.signature # EmptySignature
    /\ Has(b.payload, "name")
    /\ Has(b.payload, "publicKey")

SignedByOwnKey(b) ==
    SignedBy(b.signature, canonicalize(b.payload),
             valueOf(Field(b.payload, "publicKey")))

ClaimsDerivedId(b) ==
    /\ "signerId" \in DOMAIN b
    /\ b.signerId =
         <<"did:atn:", valueOf(Field(b.payload, "publicKey")).pre>>

KeyIsNew(b) ==
    \A d \in DOMAIN agents :
        agents[d].publicKey # valueOf(Field(b.payload, "publicKey"))

\* C34: POST /agents answers by the first check that fails, in the order
\* well formed (400), signed by the payload's key (401), signerId derived
\* from the key (400), key not yet registered (409); it answers 201 and
\* inserts the agent only when all four pass, and every other answer leaves
\* the store as it was.
C34_FirstFailingCheck ==
    Running => \A b \in AgentBodies : \A now \in Times :
        LET out == postAgents(store, b, now)
        IN  /\ IF ~WellFormed(b)
               THEN out.status = 400 /\ out.error = "Invalid agent payload"
               ELSE IF ~SignedByOwnKey(b)
               THEN out.status = 401 /\ out.error = "Invalid signature"
               ELSE IF ~ClaimsDerivedId(b)
               THEN out.status = 400 /\ out.error = "Invalid signerId"
               ELSE IF ~KeyIsNew(b)
               THEN out.status = 409
                      /\ out.error = "Agent already registered"
               ELSE out.status \in {201, 500}
            /\ out.status = 201 =>
                 /\ b.signerId \notin DOMAIN agents
                 /\ out.store.agents =
                      (b.signerId :>
                         [did |-> b.signerId,
                          publicKey |-> valueOf(Field(b.payload, "publicKey")),
                          name |-> valueOf(Field(b.payload, "name")),
                          registeredAt |-> now]) @@ agents
            /\ out.status # 201 => out.store = store

\* with both identifiers taken, the node has just answered 401 to a
\* registration
C34_Witness ==
    /\ last.route = "/agents"
    /\ last.status = 401
    /\ Cardinality(DOMAIN agents) = 2

\* C33: for all states s and t, t is in getNextStates(s) iff
\* isValidTransition(s, t) iff validateTransition(s, t).valid, and
\* isTerminal(s) iff getNextStates(s) is empty, of the calls made and in
\* every state; and the transition table is as the module created it, also
\* after a caller modified the array getNextStates returned.
C33_QueriesAgree ==
    /\ \A s \in JobStates : \A t \in JobStates :
         /\ includes(itemsOf(getNextStates(s)), t) <=> isValidTransition(s, t)
         /\ isValidTransition(s, t) <=> validateTransition(s, t).valid
    /\ \A s \in JobStates :
         isTerminal(s) <=> itemsOf(getNextStates(s)) = <<>>
    /\ query.op = "getNextStates" =>
         \A t \in JobStates :
             includes(query.result, t) <=> isValidTransition(query.from, t)
    /\ query.op = "isTerminal" =>
         (query.result <=> \A t \in JobStates :
                              ~validateTransition(query.from, t).valid)
    /\ table = VALID_TRANSITIONS
    /\ query.op = "push" =>
         /\ heap[query.ref] = query.result
         /\ heap[RowOf[query.from]] # query.result

\* a caller pushed CREATED onto the array returned for SETTLED, and SETTLED
\* is terminal
C33_Witness ==
    /\ query.op = "push"
    /\ query.from = "SETTLED"
    /\ query.result = <<"CREATED">>
    /\ heap[RowOf["SETTLED"]] = <<>>
    /\ isTerminal("SETTLED")

\* C35: from CREATED, every sequence of accepted transitions has at most 4
\* transitions and never revisits a state, and one of 4 transitions ends in
\* SETTLED after FUNDED, PROVED and ATTESTED in that order.
C35_AcyclicAndBounded ==
    query.op = "walk" =>
        /\ Len(query.path) - 1 <= 4
        /\ \A i \in 1..Len(query.path) : \A j \in 1..Len(query.path) :
             query.path[i] = query.path[j] => i = j
        /\ Len(query.path) - 1 = 4 =>
             query.path = <<"CREATED", "FUNDED", "PROVED", "ATTESTED",
                            "SETTLED">>

\* the walk made its four transitions
C35_Witness ==
    /\ query.op = "walk"
    /\ Len(query.path) = 5
    /\ query.state = "SETTLED"

=============================================================================
